---- MODULE Spec2Model ----
(***************************************************************************)
(* Model of the panopticon synchronisation layer (src/src/zoho_client.py,  *)
(* src/src/cache.py): OAuth token management, the retrying request         *)
(* executor, and the concurrent stage-history batch fetch.                 *)
(*                                                                         *)
(* Times are seconds.  Python's None is modelled by NoToken / NoExpiry /   *)
(* NoTime and by the string "None" for strings.                            *)
(***************************************************************************)
EXTENDS Integers, Sequences, FiniteSets, TLC

VARIABLES
    now,                \* the wall clock, datetime.now(timezone.utc)
    creds,              \* TRUE iff st.secrets["zoho"] holds the credentials
    zoho_access_token,  \* st.session_state.zoho_access_token
    zoho_token_expiry,  \* st.session_state.zoho_token_expiry
    zoho_error,         \* st.session_state.zoho_error
    zoho_error_type,    \* st.session_state.zoho_error_type
    exchanges,          \* number of refresh exchanges answered 200 with a token so far
    mr,                 \* the running _make_request call
    trace,              \* what the running _make_request call did, in order
    snap,               \* the session state when the operation started
    gat,                \* record of the last get_access_token call
    rft,                \* record of the last refresh_access_token run
    callers,            \* the threads that call get_access_token concurrently
    expiry_ex,          \* the exchange whose answer gave the stored expiry
    cache,              \* the stage_history_cache table: lead id -> row
    notes_cache,        \* the notes_cache table: lead id -> row
    notes_cache_session,\* st.session_state["notes_cache_session"]
    kind,               \* the batch function the caller uses: "stage" or "notes"
    upstream,           \* the CRM: lead id -> its timeline and how its requests are answered
    inputs,             \* the lead lists a caller may pass to get_stage_histories_batch
    leads,              \* the argument of the running (or last) batch call
    bpc,                \* where the batch call is: "idle", "fetching", "returned"
    result,             \* the result dict of the batch call
    queue,              \* submitted fetches no worker thread has taken yet
    workers,            \* the fetches in flight: lead id -> its _make_request call
    to_cache,           \* the to_cache dict of the batch call
    prefetched_token,   \* the token handed to the workers
    reqs,               \* timeline requests sent per lead in this batch call
    writes,             \* the cache writes of this batch call: who wrote which ids
    inval,              \* the leads this batch call refetches because of a stage mismatch
    served,             \* the leads this batch call served from the cache
    succeeded,          \* the leads whose request the CRM answered with a usable body
    ncall,              \* number of batch calls started
    started,            \* when the running (or last) batch call started
    prev,               \* what the previous batch call was given and did
    leads_cache,        \* the leads_cache table: cache key -> row
    cop,                \* the last operation on the cache store and what it returned
    wrote,              \* the writes to the cache store so far, and the last of them
    lq,                 \* the get_leads_with_appointments call: where it is, what it returned
    sh,                 \* the get_stage_history call: where it is, what it returned
    cls,                \* the classification under way: its inputs and what each function returned
    dash                \* the dashboard: its session state and where its script run is

sessionVars == <<zoho_access_token, zoho_token_expiry, zoho_error, zoho_error_type, exchanges>>
execVars == <<mr, trace, snap, gat, rft>>
tokVars == <<callers, expiry_ex>>
batchVars == <<cache, notes_cache, notes_cache_session, kind, upstream, inputs, leads, bpc, result, queue, workers, to_cache,
               prefetched_token, reqs, writes, inval, served, succeeded, ncall, started,
               prev>>

storeVars == <<leads_cache, cop, wrote, lq, sh, cls, dash>>

vars == <<now, creds, sessionVars, execVars, tokVars, batchVars, storeVars>>

----------------------------------------------------------------------------
(* Bounds of the model *)

\* number of threads that call get_access_token at the same time
NumCallers == 2
\* number of stage changes in one upstream timeline
MaxEvents == 2
\* number of consecutive batch calls in one behaviour
MaxBatchCalls == 2
\* number of leads in the batch that exercises the worker pool
PoolLeads == 12

\* the instant at which the client operation starts
Now0 == 1000

(* Program constants *)

TOKEN_EXPIRY_BUFFER == 300
MAX_RATE_LIMIT_RETRIES == 2
DEFAULT_RETRY_AFTER == 60
DefaultExpiresIn == 3600

ERROR_TYPE_CONNECTION == "connection"
ERROR_TYPE_TIMEOUT == "timeout"
ERROR_TYPE_AUTH == "auth"
ERROR_TYPE_UNKNOWN == "unknown"

NoToken == 0
NoExpiry == -1
None == "None"

\* the messages _set_error is called with
MSG_CREDENTIALS == "Zoho credentials not configured"
MSG_SESSION == "Session expired"
MSG_TIMEOUT == "Request timed out"
MSG_CONNECT == "Unable to connect to Zoho CRM"
MSG_REFRESH_REQUEST == "An error occurred while connecting to Zoho CRM"
MSG_RATE_LIMIT == "Rate limit exceeded after retries"
MSG_STATUS == "Zoho CRM returned an error (status)"
MSG_REQUEST == "An error occurred while communicating with Zoho CRM"

----------------------------------------------------------------------------
(* Inputs *)

\* answers of the OAuth endpoint to the refresh exchange
RefreshOutcomes == {"ok", "ok_no_token", "http_error", "timeout", "connection", "request"}

\* the expires_in field of the exchange answer; 0 stands for an absent field
ExpiresInValues == {0, 200}

\* the answers of the OAuth endpoint with the expires_in they carry
RefreshAnswers == {[outcome |-> o, e |-> e] : o \in {"ok", "ok_no_token"}, e \in ExpiresInValues}
                    \cup {[outcome |-> o, e |-> 0] :
                            o \in {"http_error", "timeout", "connection", "request"}}
NoRefresh == [outcome |-> "request", e |-> 0]

\* answers of the CRM API to one request: a status code or a raised exception
Answers == {[exc |-> "none", status |-> s] : s \in {200, 401, 429, 500}}
             \cup {[exc |-> x, status |-> 0] : x \in {"timeout", "connection", "request"}}

\* the Retry-After header of an answer: absent, a non-negative integer, or other text
RetryAfterHeaders == {[kind |-> "absent", val |-> 0], [kind |-> "text", val |-> 0],
                      [kind |-> "int", val |-> 120], [kind |-> "int", val |-> 3400]}
NoHeader == [kind |-> "absent", val |-> 0]

----------------------------------------------------------------------------
(* Session state as a value, so that nested calls can be composed *)

Session == [token |-> zoho_access_token, expiry |-> zoho_token_expiry,
            error |-> zoho_error, etype |-> zoho_error_type, ex |-> exchanges]

_set_error(s, message, error_type) == [s EXCEPT !.error = message, !.etype = error_type]

\* as _clear_error, but the error kind is left as it was
_clear_error_MessageOnly(s) == [s EXCEPT !.error = None]

_clear_error(s) == [s EXCEPT !.error = None, !.etype = None]

\* data.get("expires_in", 3600)
ExpiresIn(e) == IF e = 0 THEN DefaultExpiresIn ELSE e

\* Result of refresh_access_token: the new session, the returned token,
\* and whether the exchange request was sent.
refresh_access_token(s, t, outcome, e) ==
    IF ~creds THEN
        [s |-> _set_error(s, MSG_CREDENTIALS, ERROR_TYPE_AUTH), ret |-> NoToken, posted |-> FALSE]
    ELSE IF outcome = "ok" THEN
        [s |-> _clear_error([s EXCEPT !.token = s.ex + 1, !.expiry = t + ExpiresIn(e),
                                      !.ex = s.ex + 1]),
         ret |-> s.ex + 1, posted |-> TRUE]
    ELSE IF outcome = "ok_no_token" THEN
        [s |-> _clear_error([s EXCEPT !.token = NoToken, !.expiry = t + ExpiresIn(e)]),
         ret |-> NoToken, posted |-> TRUE]
    ELSE IF outcome = "http_error" THEN
        [s |-> _set_error(s, MSG_SESSION, ERROR_TYPE_AUTH), ret |-> NoToken, posted |-> TRUE]
    ELSE IF outcome = "timeout" THEN
        [s |-> _set_error(s, MSG_TIMEOUT, ERROR_TYPE_TIMEOUT), ret |-> NoToken, posted |-> TRUE]
    ELSE IF outcome = "connection" THEN
        [s |-> _set_error(s, MSG_CONNECT, ERROR_TYPE_CONNECTION), ret |-> NoToken, posted |-> TRUE]
    ELSE
        [s |-> _set_error(s, MSG_REFRESH_REQUEST, ERROR_TYPE_UNKNOWN), ret |-> NoToken, posted |-> TRUE]

\* as _is_token_expired, but without the expiry buffer
_is_token_expired_NoBuffer(s, t) ==
    \/ s.token = NoToken
    \/ s.expiry = NoExpiry
    \/ t >= s.expiry

_is_token_expired(s, t) ==
    \/ s.token = NoToken
    \/ s.expiry = NoExpiry
    \/ t >= s.expiry - TOKEN_EXPIRY_BUFFER

\* Result of get_access_token, with "refreshed" telling whether it ran
\* refresh_access_token.
get_access_token(s, t, outcome, e) ==
    IF _is_token_expired(s, t)
    THEN [refreshed |-> TRUE] @@ refresh_access_token(s, t, outcome, e)
    ELSE [refreshed |-> FALSE, s |-> s, ret |-> s.token, posted |-> FALSE]

_parse_retry_after(header_value) ==
    IF header_value.kind = "int" THEN header_value.val ELSE DEFAULT_RETRY_AFTER

----------------------------------------------------------------------------
(* The request executor, _make_request.  One call is a chain of nested     *)
(* calls; mr holds the arguments of the innermost one and trace what the   *)
(* chain did so far.                                                       *)

Ev(ev, v, h) == [ev |-> ev, v |-> v, h |-> h]

IdleCall == [pc |-> "idle", pre |-> NoToken, r401 |-> TRUE, rl |-> 0,
             tok |-> NoToken, result |-> "pending"]

NoGat == [ran |-> FALSE, tok |-> NoToken, exp |-> NoExpiry, at |-> 0,
          refreshed |-> FALSE, posts |-> 0, ret |-> NoToken]

NoRft == [ran |-> FALSE, failed |-> FALSE, before |-> NoToken, after |-> NoToken]

GatOf(s, t, g) == [ran |-> TRUE, tok |-> s.token, exp |-> s.expiry, at |-> t,
                   refreshed |-> g.refreshed, posts |-> IF g.posted THEN 1 ELSE 0,
                   ret |-> g.ret]

RftOf(s, g, old) == IF g.refreshed
                    THEN [ran |-> TRUE, failed |-> g.ret = NoToken,
                          before |-> s.token, after |-> g.s.token]
                    ELSE old

RefreshEv(g) == IF ~g.refreshed THEN << >>
                ELSE IF ~g.posted THEN << Ev("refresh_unsent", 0, NoHeader) >>
                ELSE IF g.ret = NoToken THEN << Ev("refresh_failed", 0, NoHeader) >>
                ELSE << Ev("refresh_ok", g.ret, NoHeader) >>

\* Lines 308-334: choose the token and send the request.
MakeRequestEntry(s, t, pre, r401, rl, outcome, e, tr, g0, r0) ==
    IF pre # NoToken THEN
        [s |-> s, t |-> t, tr |-> Append(tr, Ev("req", pre, NoHeader)), g |-> g0, r |-> r0,
         mr |-> [pc |-> "wait", pre |-> pre, r401 |-> r401, rl |-> rl, tok |-> pre,
                 result |-> "pending"]]
    ELSE
        LET g == get_access_token(s, t, outcome, e) IN
        IF g.ret = NoToken THEN
            [s |-> g.s, t |-> t, tr |-> tr \o RefreshEv(g),
             g |-> GatOf(s, t, g), r |-> RftOf(s, g, r0),
             mr |-> [pc |-> "done", pre |-> pre, r401 |-> r401, rl |-> rl, tok |-> NoToken,
                     result |-> "None"]]
        ELSE
            [s |-> g.s, t |-> t, tr |-> (tr \o RefreshEv(g)) \o << Ev("req", g.ret, NoHeader) >>,
             g |-> GatOf(s, t, g), r |-> RftOf(s, g, r0),
             mr |-> [pc |-> "wait", pre |-> pre, r401 |-> r401, rl |-> rl, tok |-> g.ret,
                     result |-> "pending"]]

\* as MakeRequestFail, but the error is recorded whichever token was used
MakeRequestFail_Record(s, t, m, message, error_type, tr, g0, r0) ==
    [s |-> _set_error(s, message, error_type),
     t |-> t, tr |-> tr, g |-> g0, r |-> r0,
     mr |-> [m EXCEPT !.pc = "done", !.result = "None"]]

\* The call ends without a response, recording the error unless the token was pre-fetched.
MakeRequestFail(s, t, m, message, error_type, tr, g0, r0) ==
    [s |-> IF m.pre = NoToken THEN _set_error(s, message, error_type) ELSE s,
     t |-> t, tr |-> tr, g |-> g0, r |-> r0,
     mr |-> [m EXCEPT !.pc = "done", !.result = "None"]]

\* as MakeRequestOn401, but the nested call may retry on 401 again
MakeRequestOn401_Again(s, t, m, outcome, e, tr, g0, r0) ==
    MakeRequestEntry([s EXCEPT !.token = NoToken, !.expiry = NoExpiry], t,
                     NoToken, TRUE, m.rl, outcome, e,
                     Append(tr, Ev("clear", 0, NoHeader)), g0, r0)

\* as MakeRequestOn401, but the nested call starts with a fresh 429 retry count
MakeRequestOn401_ResetRetries(s, t, m, outcome, e, tr, g0, r0) ==
    MakeRequestEntry([s EXCEPT !.token = NoToken, !.expiry = NoExpiry], t,
                     NoToken, FALSE, 0, outcome, e,
                     Append(tr, Ev("clear", 0, NoHeader)), g0, r0)

\* Lines 339-353: the first 401 of a call that pulls its own token.
MakeRequestOn401(s, t, m, outcome, e, tr, g0, r0) ==
    MakeRequestEntry([s EXCEPT !.token = NoToken, !.expiry = NoExpiry], t,
                     NoToken, FALSE, m.rl, outcome, e,
                     Append(tr, Ev("clear", 0, NoHeader)), g0, r0)

\* as MakeRequestOn429, but it retries once more before giving up
MakeRequestOn429_OneMore(s, t, m, hdr, outcome, e, tr, g0, r0) ==
    LET retry_after == _parse_retry_after(hdr) IN
    IF m.rl <= MAX_RATE_LIMIT_RETRIES THEN
        MakeRequestEntry(s, t + retry_after, m.pre, m.r401, m.rl + 1, outcome, e,
                         Append(tr, Ev("sleep", retry_after, NoHeader)), g0, r0)
    ELSE
        MakeRequestFail(s, t, m, MSG_RATE_LIMIT, ERROR_TYPE_CONNECTION, tr, g0, r0)

\* Lines 355-387: a 429 answer.
MakeRequestOn429(s, t, m, hdr, outcome, e, tr, g0, r0) ==
    LET retry_after == _parse_retry_after(hdr) IN
    IF m.rl < MAX_RATE_LIMIT_RETRIES THEN
        MakeRequestEntry(s, t + retry_after, m.pre, m.r401, m.rl + 1, outcome, e,
                         Append(tr, Ev("sleep", retry_after, NoHeader)), g0, r0)
    ELSE
        MakeRequestFail(s, t, m, MSG_RATE_LIMIT, ERROR_TYPE_CONNECTION, tr, g0, r0)

\* as MakeRequestSuccess, but the recorded error is left as it was
MakeRequestSuccess_KeepError(s, t, m, tr, g0, r0) ==
    [s |-> s, t |-> t, tr |-> tr, g |-> g0, r |-> r0,
     mr |-> [m EXCEPT !.pc = "done", !.result = "response"]]

\* Lines 400-403: any status below 400.
MakeRequestSuccess(s, t, m, tr, g0, r0) ==
    [s |-> IF m.pre = NoToken THEN _clear_error(s) ELSE s,
     t |-> t, tr |-> tr, g |-> g0, r |-> r0,
     mr |-> [m EXCEPT !.pc = "done", !.result = "response"]]

\* as MakeRequestOnAnswer, but after a 401 the request is sent once more with
\* the pre-fetched token
MakeRequestOnAnswer_ReissuePrefetched(s, t, m, ans, hdr, outcome, e, tr0, g0, r0) ==
    LET tr == Append(tr0, Ev(IF ans.exc = "none" THEN "ans" ELSE ans.exc, ans.status, hdr)) IN
    IF ans.exc = "timeout" THEN
        MakeRequestFail(s, t, m, MSG_TIMEOUT, ERROR_TYPE_TIMEOUT, tr, g0, r0)
    ELSE IF ans.exc = "connection" THEN
        MakeRequestFail(s, t, m, MSG_CONNECT, ERROR_TYPE_CONNECTION, tr, g0, r0)
    ELSE IF ans.exc = "request" THEN
        MakeRequestFail(s, t, m, MSG_REQUEST, ERROR_TYPE_UNKNOWN, tr, g0, r0)
    ELSE IF ans.status = 401 /\ m.r401 THEN
        IF m.pre = NoToken THEN MakeRequestOn401(s, t, m, outcome, e, tr, g0, r0)
        ELSE MakeRequestEntry(s, t, m.pre, FALSE, m.rl, outcome, e, tr, g0, r0)
    ELSE IF ans.status = 429 THEN
        MakeRequestOn429(s, t, m, hdr, outcome, e, tr, g0, r0)
    ELSE IF ans.status >= 400 THEN
        MakeRequestFail(s, t, m, MSG_STATUS, ERROR_TYPE_UNKNOWN, tr, g0, r0)
    ELSE
        MakeRequestSuccess(s, t, m, tr, g0, r0)

\* Lines 337-430: what _make_request does with the answer to its request.
MakeRequestOnAnswer(s, t, m, ans, hdr, outcome, e, tr0, g0, r0) ==
    LET tr == Append(tr0, Ev(IF ans.exc = "none" THEN "ans" ELSE ans.exc, ans.status, hdr)) IN
    IF ans.exc = "timeout" THEN
        MakeRequestFail(s, t, m, MSG_TIMEOUT, ERROR_TYPE_TIMEOUT, tr, g0, r0)
    ELSE IF ans.exc = "connection" THEN
        MakeRequestFail(s, t, m, MSG_CONNECT, ERROR_TYPE_CONNECTION, tr, g0, r0)
    ELSE IF ans.exc = "request" THEN
        MakeRequestFail(s, t, m, MSG_REQUEST, ERROR_TYPE_UNKNOWN, tr, g0, r0)
    ELSE IF ans.status = 401 /\ m.r401 /\ m.pre = NoToken THEN
        MakeRequestOn401(s, t, m, outcome, e, tr, g0, r0)
    ELSE IF ans.status = 429 THEN
        MakeRequestOn429(s, t, m, hdr, outcome, e, tr, g0, r0)
    ELSE IF ans.status >= 400 THEN
        MakeRequestFail(s, t, m, MSG_STATUS, ERROR_TYPE_UNKNOWN, tr, g0, r0)
    ELSE
        MakeRequestSuccess(s, t, m, tr, g0, r0)

----------------------------------------------------------------------------
(* The batch fetch is not running and nothing is cached *)

EmptyMap == << >>

NoPrev == [ran |-> FALSE, leads |-> << >>, inval |-> {}, fetched |-> {}, at |-> 0,
           reqs |-> EmptyMap, served |-> {}, token |-> NoToken, result |-> EmptyMap]

NoOp == [op |-> "none", keys |-> {}, ret |-> EmptyMap, at |-> 0, trips |-> << >>]

NoWrite == [n |-> 0, op |-> "none", m |-> EmptyMap, at |-> 0]

NoLeadsQuery ==
    [pc |-> "idle", n |-> 0, bypass_cache |-> FALSE, outcome |-> "none", ret |-> << >>,
     before |-> EmptyMap]

NoStageCall ==
    [pc |-> "idle", n |-> 0, lead_id |-> 0, current_stage |-> None, outcome |-> "none",
     ret |-> [ok |-> FALSE, history |-> << >>], before |-> EmptyMap,
     response |-> "none", body |-> "none", timeline |-> << >>]

NoCls == [pc |-> "none", kind |-> "none"]

NoDash == [pc |-> "off"]

NoStore ==
    /\ leads_cache = EmptyMap
    /\ cop = NoOp
    /\ wrote = NoWrite
    /\ lq = NoLeadsQuery
    /\ sh = NoStageCall
    /\ cls = NoCls
    /\ dash = NoDash

NoBatch ==
    /\ cache = EmptyMap
    /\ notes_cache = EmptyMap
    /\ notes_cache_session = EmptyMap
    /\ kind = "stage"
    /\ upstream = EmptyMap
    /\ inputs = {}
    /\ leads = << >>
    /\ bpc = "idle"
    /\ result = EmptyMap
    /\ queue = << >>
    /\ workers = EmptyMap
    /\ to_cache = EmptyMap
    /\ prefetched_token = NoToken
    /\ reqs = EmptyMap
    /\ writes = << >>
    /\ inval = {}
    /\ served = {}
    /\ succeeded = {}
    /\ ncall = 0
    /\ started = 0
    /\ prev = NoPrev

----------------------------------------------------------------------------
(* Actions of the single-threaded client *)

SetSession(s) ==
    /\ zoho_access_token' = s.token
    /\ zoho_token_expiry' = s.expiry
    /\ zoho_error' = s.error
    /\ zoho_error_type' = s.etype
    /\ exchanges' = s.ex

SetCall(c) ==
    /\ SetSession(c.s)
    /\ now' = c.t
    /\ mr' = c.mr
    /\ trace' = c.tr
    /\ gat' = c.g
    /\ rft' = c.r

\* A caller runs _make_request, with or without a pre-fetched token.
MakeRequest(pre, outcome, e) ==
    /\ mr.pc = "idle"
    /\ UNCHANGED storeVars
    /\ SetCall(MakeRequestEntry(Session, now, pre, TRUE, 0, outcome, e, << >>, gat, rft))
    /\ UNCHANGED <<creds, snap, tokVars, batchVars>>

\* The CRM API answers the request in flight.
Respond(ans, hdr, outcome, e) ==
    /\ mr.pc = "wait"
    /\ UNCHANGED storeVars
    /\ SetCall(MakeRequestOnAnswer(Session, now, mr, ans, hdr, outcome, e, trace, gat, rft))
    /\ UNCHANGED <<creds, snap, tokVars, batchVars>>

\* A caller asks for the token directly (the batch fetches do, before starting workers).
GetAccessToken(outcome, e) ==
    /\ mr.pc = "idle"
    /\ UNCHANGED storeVars
    /\ LET g == get_access_token(Session, now, outcome, e) IN
        /\ SetSession(g.s)
        /\ gat' = GatOf(Session, now, g)
        /\ rft' = RftOf(Session, g, rft)
        /\ trace' = RefreshEv(g)
    /\ mr' = [IdleCall EXCEPT !.pc = "done", !.result = "token"]
    /\ UNCHANGED <<creds, now, snap, tokVars, batchVars>>

\* clear_error()
ClearError ==
    /\ mr.pc = "idle"
    /\ UNCHANGED storeVars
    /\ SetSession(_clear_error(Session))
    /\ mr' = [IdleCall EXCEPT !.pc = "done", !.result = "cleared"]
    /\ UNCHANGED <<now, creds, trace, snap, gat, rft, tokVars, batchVars>>

\* The sessions in which an operation can start.  Without credentials no
\* token was ever obtained.  With credentials: nothing stored yet, or the last
\* refresh failed; a token with its expiry (valid for long, valid for less
\* than one default back-off, at the edge of the buffer, inside the buffer),
\* with no error, with the error of an earlier request, or (once inside the
\* buffer) with the error of a failed refresh; or an expiry without a token
\* (a 200 exchange answer without access_token).
Sess(token, expiry, ex, error, etype) ==
    [token |-> token, expiry |-> expiry, ex |-> ex, error |-> error, etype |-> etype]

StartSessions(c) ==
    IF ~c THEN {Sess(NoToken, NoExpiry, 0, None, None),
                Sess(NoToken, NoExpiry, 0, MSG_CREDENTIALS, ERROR_TYPE_AUTH)}
    ELSE {Sess(NoToken, NoExpiry, 0, None, None),
          Sess(NoToken, NoExpiry, 0, MSG_SESSION, ERROR_TYPE_AUTH),
          Sess(NoToken, Now0 + DefaultExpiresIn, 0, None, None)}
         \cup {Sess(1, Now0 + d, 1, None, None) :
                 d \in {DefaultExpiresIn, TOKEN_EXPIRY_BUFFER + 30, TOKEN_EXPIRY_BUFFER, 100}}
         \cup {Sess(1, Now0 + d, 1, MSG_STATUS, ERROR_TYPE_UNKNOWN) :
                 d \in {DefaultExpiresIn, TOKEN_EXPIRY_BUFFER + 30, TOKEN_EXPIRY_BUFFER, 100}}
         \cup {Sess(1, Now0 + d, 1, MSG_SESSION, ERROR_TYPE_AUTH) :
                 d \in {TOKEN_EXPIRY_BUFFER, 100}}

Init ==
    /\ now = Now0
    /\ creds \in BOOLEAN
    /\ \E st \in StartSessions(creds) :
          /\ zoho_access_token = st.token
          /\ zoho_token_expiry = st.expiry
          /\ exchanges = st.ex
          /\ zoho_error = st.error
          /\ zoho_error_type = st.etype
          /\ snap = st
    /\ mr = IdleCall
    /\ trace = << >>
    /\ gat = NoGat
    /\ rft = NoRft
    /\ callers = << >>
    /\ expiry_ex = zoho_access_token
    /\ NoBatch
    /\ NoStore

\* a caller hands over, as pre-fetched, the token a get_access_token call gave it earlier
PrefetchedTokens == {NoToken} \cup (IF exchanges > 0 THEN {exchanges} ELSE {})

\* the header matters for a 429 answer only
HeadersOf(a) == IF a.status = 429 THEN RetryAfterHeaders ELSE {NoHeader}

\* a refresh exchange can follow a 401 or a 429 answer only, in a call that pulls its own token
RefreshAfter(a) == IF mr.pre = NoToken /\ a.status \in {401, 429} THEN RefreshAnswers ELSE {NoRefresh}

Next ==
    \/ \E pre \in PrefetchedTokens :
          \E r \in (IF pre = NoToken THEN RefreshAnswers ELSE {NoRefresh}) :
              MakeRequest(pre, r.outcome, r.e)
    \/ \E a \in Answers : \E h \in HeadersOf(a), r \in RefreshAfter(a) :
          Respond(a, h, r.outcome, r.e)
    \/ \E r \in RefreshAnswers : GetAccessToken(r.outcome, r.e)
    \/ ClearError

Spec == Init /\ [][Next]_vars

\* the request in flight is answered: requests.request returns or raises
\* within REQUEST_TIMEOUT, and time.sleep returns
RespondStep ==
    \E a \in Answers : \E h \in HeadersOf(a), r \in RefreshAfter(a) :
        Respond(a, h, r.outcome, r.e)

SpecFair == Spec /\ WF_vars(RespondStep)

----------------------------------------------------------------------------
(* get_access_token called by several threads at once.  Each statement of   *)
(* refresh_access_token is one step of the calling thread; the source       *)
(* takes no lock.                                                           *)

IdleCaller == [pc |-> "idle", tok |-> NoToken, e |-> 0, error |-> None, etype |-> None,
               ret |-> NoToken]

\* Lines 256-261 and 156-183: the expiry test; the stored token is returned,
\* or the exchange request is sent.
TokCall(t) ==
    /\ callers[t].pc = "idle"
    /\ UNCHANGED storeVars
    /\ callers' = [callers EXCEPT ![t] =
          IF _is_token_expired(Session, now)
          THEN [@ EXCEPT !.pc = "inflight"]
          ELSE [@ EXCEPT !.pc = "done", !.ret = zoho_access_token]]
    /\ UNCHANGED <<now, creds, sessionVars, execVars, expiry_ex, batchVars>>

\* Lines 184-189 and 200-231: the OAuth endpoint answers the exchange of thread t.
TokAnswer(t, outcome, e) ==
    /\ callers[t].pc = "inflight"
    /\ UNCHANGED storeVars
    /\ callers' = [callers EXCEPT ![t] =
          IF outcome = "ok" THEN
              [@ EXCEPT !.pc = "store_token", !.tok = exchanges + 1, !.e = ExpiresIn(e)]
          ELSE IF outcome = "ok_no_token" THEN
              [@ EXCEPT !.pc = "store_token", !.tok = NoToken, !.e = ExpiresIn(e)]
          ELSE IF outcome = "http_error" THEN
              [@ EXCEPT !.pc = "set_error", !.error = MSG_SESSION, !.etype = ERROR_TYPE_AUTH]
          ELSE IF outcome = "timeout" THEN
              [@ EXCEPT !.pc = "set_error", !.error = MSG_TIMEOUT, !.etype = ERROR_TYPE_TIMEOUT]
          ELSE IF outcome = "connection" THEN
              [@ EXCEPT !.pc = "set_error", !.error = MSG_CONNECT, !.etype = ERROR_TYPE_CONNECTION]
          ELSE
              [@ EXCEPT !.pc = "set_error", !.error = MSG_REFRESH_REQUEST,
                        !.etype = ERROR_TYPE_UNKNOWN]]
    /\ exchanges' = IF outcome = "ok" THEN exchanges + 1 ELSE exchanges
    /\ UNCHANGED <<now, creds, zoho_access_token, zoho_token_expiry, zoho_error,
                   zoho_error_type, execVars, expiry_ex, batchVars>>

\* Line 192
TokStoreToken(t) ==
    /\ callers[t].pc = "store_token"
    /\ UNCHANGED storeVars
    /\ zoho_access_token' = callers[t].tok
    /\ callers' = [callers EXCEPT ![t].pc = "store_expiry"]
    /\ UNCHANGED <<now, creds, zoho_token_expiry, zoho_error, zoho_error_type, exchanges,
                   execVars, expiry_ex, batchVars>>

\* Lines 193-195
TokStoreExpiry(t) ==
    /\ callers[t].pc = "store_expiry"
    /\ UNCHANGED storeVars
    /\ zoho_token_expiry' = now + callers[t].e
    /\ expiry_ex' = callers[t].tok
    /\ callers' = [callers EXCEPT ![t].pc = "clear_error"]
    /\ UNCHANGED <<now, creds, zoho_access_token, zoho_error, zoho_error_type, exchanges,
                   execVars, batchVars>>

\* Lines 196-199
TokClearError(t) ==
    /\ callers[t].pc = "clear_error"
    /\ UNCHANGED storeVars
    /\ zoho_error' = None
    /\ zoho_error_type' = None
    /\ callers' = [callers EXCEPT ![t].pc = "done", ![t].ret = callers[t].tok]
    /\ UNCHANGED <<now, creds, zoho_access_token, zoho_token_expiry, exchanges,
                   execVars, expiry_ex, batchVars>>

\* The _set_error and return None of a failure branch
TokSetError(t) ==
    /\ callers[t].pc = "set_error"
    /\ UNCHANGED storeVars
    /\ zoho_error' = callers[t].error
    /\ zoho_error_type' = callers[t].etype
    /\ callers' = [callers EXCEPT ![t].pc = "done", ![t].ret = NoToken]
    /\ UNCHANGED <<now, creds, zoho_access_token, zoho_token_expiry, exchanges,
                   execVars, expiry_ex, batchVars>>

InitTok ==
    /\ now = Now0
    /\ creds = TRUE
    /\ \E st \in StartSessions(TRUE) :
          /\ zoho_access_token = st.token
          /\ zoho_token_expiry = st.expiry
          /\ exchanges = st.ex
          /\ zoho_error = st.error
          /\ zoho_error_type = st.etype
          /\ snap = st
    /\ mr = IdleCall
    /\ trace = << >>
    /\ gat = NoGat
    /\ rft = NoRft
    /\ callers = [t \in 1..NumCallers |-> IdleCaller]
    /\ expiry_ex = zoho_access_token
    /\ NoBatch
    /\ NoStore

NextTok ==
    \E t \in 1..NumCallers :
        \/ TokCall(t)
        \/ \E r \in RefreshAnswers : TokAnswer(t, r.outcome, r.e)
        \/ TokStoreToken(t)
        \/ TokStoreExpiry(t)
        \/ TokClearError(t)
        \/ TokSetError(t)

SpecTok == InitTok /\ [][NextTok]_vars

----------------------------------------------------------------------------
(* What a _make_request call did, read off its trace *)

AnswerEvs == {"ans", "timeout", "connection", "request"}
RefreshEvs == {"refresh_ok", "refresh_failed", "refresh_unsent"}

At(tr, names) == {i \in DOMAIN tr : tr[i].ev \in names}
Count(tr, names) == Cardinality(At(tr, names))
StatusAt(tr, code) == {i \in DOMAIN tr : tr[i].ev = "ans" /\ tr[i].v = code}

InMakeRequest == mr.pc \in {"wait", "done"} /\ mr.result \in {"pending", "None", "response"}
MakeRequestDone == mr.pc = "done" /\ mr.result \in {"None", "response"}

\* every answer received so far was a 429, and there was one
All429 == /\ At(trace, AnswerEvs) # {}
          /\ At(trace, AnswerEvs) = StatusAt(trace, 429)

\* every sleep directly follows a 429 answer and lasts what its Retry-After says
SleepsFollowRetryAfter ==
    \A i \in At(trace, {"sleep"}) :
        /\ i > 1
        /\ trace[i - 1].ev = "ans" /\ trace[i - 1].v = 429
        /\ trace[i].v = (IF trace[i - 1].h.kind = "int" THEN trace[i - 1].h.val ELSE 60)

\* after a sleep the call goes on: it refreshes the token or sends the request again
SleepThenRetry ==
    \A i \in At(trace, {"sleep"}) : i < Len(trace) /\ trace[i + 1].ev \in RefreshEvs \cup {"req"}

----------------------------------------------------------------------------
----------------------------------------------------------------------------
(* C2, as stated: in a call that pulls its own token the first 401 clears   *)
(* the stored token and expiry, triggers exactly one refresh and exactly    *)
(* one re-issue of the request; a second 401 ends the call with failure,    *)
(* with no further refresh or retry, whatever 429 answers are interleaved.  *)

\* the first 401 is followed by: clear, one refresh, and (if reissue) the request
First401Handled(reissue) ==
    LET i == CHOOSE k \in StatusAt(trace, 401) : \A l \in StatusAt(trace, 401) : k <= l IN
    /\ Len(trace) >= i + 2
    /\ trace[i + 1].ev = "clear"
    /\ trace[i + 2].ev \in RefreshEvs
    /\ IF reissue \/ trace[i + 2].ev = "refresh_ok"
       THEN Len(trace) >= i + 3 /\ trace[i + 3].ev = "req"
       ELSE Len(trace) = i + 2 /\ MakeRequestDone /\ mr.result = "None"

\* a second 401 is the last thing the call sees
Second401Terminal ==
    /\ Cardinality(StatusAt(trace, 401)) <= 2
    /\ Cardinality(StatusAt(trace, 401)) = 2 =>
          /\ trace[Len(trace)].ev = "ans" /\ trace[Len(trace)].v = 401
          /\ MakeRequestDone /\ mr.result = "None"
    /\ Count(trace, {"clear"}) <= 1

C2_AsStated ==
    (InMakeRequest /\ mr.pre = NoToken /\ StatusAt(trace, 401) # {}) =>
        First401Handled(TRUE) /\ Second401Terminal

(* C2, amended: the first 401 clears the stored token and expiry and        *)
(* triggers exactly one refresh; when that refresh yields a token the       *)
(* request is re-issued exactly once, and when it fails the call ends with  *)
(* failure without a re-issue.  A second 401 ends the call with failure.    *)
C2_Retry401Once ==
    (InMakeRequest /\ mr.pre = NoToken /\ StatusAt(trace, 401) # {}) =>
        First401Handled(FALSE) /\ Second401Terminal

\* 401, refresh, re-issue, 429, back-off, re-issue, second 401
C2_Witness ==
    /\ MakeRequestDone /\ mr.pre = NoToken
    /\ Cardinality(StatusAt(trace, 401)) = 2
    /\ StatusAt(trace, 429) # {}
    /\ Count(trace, {"req"}) = 3

----------------------------------------------------------------------------
(* C3: get_access_token runs a refresh exchange iff no token is stored, no  *)
(* expiry is stored or now >= expiry - 300 s; otherwise it returns the      *)
(* stored token and sends nothing; it sends at most one exchange request    *)
(* per call (exactly one when it refreshes with credentials configured).    *)
C3_RefreshIffExpired ==
    gat.ran =>
        LET due == gat.tok = NoToken \/ gat.exp = NoExpiry \/ gat.at >= gat.exp - 300 IN
        /\ gat.refreshed <=> due
        /\ ~due => (gat.posts = 0 /\ gat.ret = gat.tok)
        /\ gat.posts <= 1
        /\ (due /\ creds) => gat.posts = 1
        /\ Count(trace, RefreshEvs) = (IF due THEN 1 ELSE 0) \/ mr.result # "token"

\* both sides are reached: a token 330 s from expiry is returned as it is,
\* one exactly 300 s from expiry is refreshed
C3_Witness ==
    /\ gat.ran /\ mr.result = "token" /\ gat.tok # NoToken
    /\ gat.at = gat.exp - 300 /\ gat.refreshed /\ gat.posts = 1

C3_WitnessKept ==
    /\ gat.ran /\ mr.result = "token"
    /\ gat.at = gat.exp - 330 /\ ~gat.refreshed /\ gat.ret = gat.tok

----------------------------------------------------------------------------
(* C4, as stated: after a refresh exchange that fails, no access token      *)
(* remains stored.                                                          *)
C4_AsStated == (rft.ran /\ rft.failed) => rft.after = NoToken

----------------------------------------------------------------------------
(* C5, as stated: with several concurrent callers of get_access_token, two  *)
(* refresh exchanges are never in flight at the same time, and the stored   *)
(* token and the stored expiry always come from the same exchange.          *)
C5_AsStated ==
    /\ Cardinality({t \in DOMAIN callers : callers[t].pc = "inflight"}) <= 1
    /\ ((\A t \in DOMAIN callers : callers[t].pc # "store_expiry") /\ zoho_access_token # NoToken)
          => expiry_ex = zoho_access_token

----------------------------------------------------------------------------
(* Stage histories: upstream timeline events, transitions, cached rows *)

CACHE_TTL_HOURS == 24
CACHE_TTL == CACHE_TTL_HOURS * 3600
BATCH_QUERY_CHUNK_SIZE == 100
MAX_WORKERS == 10

\* a timestamp is None, a datetime, or its text
NoTime == [type |-> "None", v |-> 0]
Datetime(t) == [type |-> "datetime", v |-> t]
Str(t) == [type |-> "str", v |-> t]

StageA == "Appt Not Acknowledged"
StageB == "Green - Approved By Locator"

Truthy(x) == x # None

isoformat(d) == IF d.type = "datetime" THEN Str(d.v) ELSE NoTime

parse_zoho_date(date_string) ==
    IF date_string.type = "None" THEN NoTime
    ELSE IF date_string.type = "str" /\ date_string.v >= 0 THEN Datetime(date_string.v)
    ELSE NoTime

Transition(from_stage, to_stage, changed_at) ==
    [from_stage |-> from_stage, to_stage |-> to_stage, changed_at |-> changed_at]

TimelineEvent(api_name, old, new, audited_time) ==
    [api_name |-> api_name, old |-> old, new |-> new, audited_time |-> audited_time]

\* datetime.min stands for a missing changed_at in the sort
SortKey(x) == IF x.changed_at.type # "None" THEN x.changed_at.v ELSE -1

InsertSorted(sorted, x) ==
    LET n == Cardinality({i \in 1..Len(sorted) : SortKey(sorted[i]) <= SortKey(x)})
    IN  SubSeq(sorted, 1, n) \o << x >> \o SubSeq(sorted, n + 1, Len(sorted))

\* as SortByChangedAt, leaving the transitions in the order of the timeline
SortByChangedAt_AsReceived(h) == h

RECURSIVE SortByChangedAt(_)
SortByChangedAt(h) ==
    IF h = << >> THEN << >>
    ELSE InsertSorted(SortByChangedAt(SubSeq(h, 1, Len(h) - 1)), h[Len(h)])

RECURSIVE ExtractTransitions(_)
ExtractTransitions(timeline_events) ==
    IF timeline_events = << >> THEN << >>
    ELSE LET event == Head(timeline_events) IN
         (IF event.api_name = "Stage"
          THEN << Transition(event.old, event.new, parse_zoho_date(event.audited_time)) >>
          ELSE << >>) \o ExtractTransitions(Tail(timeline_events))

\* as WithSynthetic, but the synthetic transition is never appended
WithSynthetic_Never(stage_transitions, current_stage, t) == stage_transitions

WithSynthetic(stage_transitions, current_stage, t) ==
    IF Truthy(current_stage) /\ stage_transitions # << >> THEN
        LET last_to_stage == stage_transitions[Len(stage_transitions)].to_stage IN
        IF Truthy(last_to_stage) /\ last_to_stage # current_stage
        THEN Append(stage_transitions,
                    Transition(last_to_stage, current_stage, Datetime(t)))
        ELSE stage_transitions
    ELSE stage_transitions

StageTransitions(timeline_events, current_stage, t) ==
    WithSynthetic(SortByChangedAt(ExtractTransitions(timeline_events)), current_stage, t)

CacheData(history) ==
    [i \in 1..Len(history) |->
        Transition(history[i].from_stage, history[i].to_stage, isoformat(history[i].changed_at))]

ParseCached(history) ==
    [i \in 1..Len(history) |->
        IF history[i].changed_at.type = "str"
        THEN [history[i] EXCEPT !.changed_at = parse_zoho_date(history[i].changed_at)]
        ELSE history[i]]

Row(stage_history, cached_at) == [stage_history |-> stage_history, cached_at |-> cached_at]

Restrict(f, S) == [x \in S |-> f[x]]

Ids(ls) == {ls[i].id : i \in 1..Len(ls)}

\* as Chunks, where only the first chunk is queried
Chunks_FirstOnly(lead_ids, size) ==
    IF lead_ids = << >> THEN << >>
    ELSE << SubSeq(lead_ids, 1, IF Len(lead_ids) <= size THEN Len(lead_ids) ELSE size) >>

RECURSIVE Chunks(_, _)
Chunks(lead_ids, size) ==
    IF Len(lead_ids) <= size THEN (IF lead_ids = << >> THEN << >> ELSE << lead_ids >>)
    ELSE << SubSeq(lead_ids, 1, size) >> \o Chunks(SubSeq(lead_ids, size + 1, Len(lead_ids)), size)

get_cached_stage_histories_batch(table, lead_ids, t) ==
    LET chunks == Chunks(lead_ids, BATCH_QUERY_CHUNK_SIZE)
        hit == UNION {{chunks[c][i] : i \in 1..Len(chunks[c])} \cap
                         {id \in DOMAIN table : t - table[id].cached_at <= CACHE_TTL}
                      : c \in 1..Len(chunks)}
    IN  [id \in hit |-> table[id].stage_history]

set_cached_stage_histories_batch(table, stage_histories, t) ==
    [id \in DOMAIN table \cup DOMAIN stage_histories |->
        IF id \in DOMAIN stage_histories THEN Row(stage_histories[id], t) ELSE table[id]]

set_cached_stage_history(table, lead_id, stage_history, t) ==
    [id \in DOMAIN table \cup {lead_id} |->
        IF id = lead_id THEN Row(stage_history, t) ELSE table[id]]

\* a lead dict; a key that is absent reads as None
Lead(id, shape, stage) ==
    IF shape = "Stage" THEN [id |-> id, Stage |-> stage, current_stage |-> None]
    ELSE [id |-> id, Stage |-> None, current_stage |-> stage]

CurrentStage(lead) == IF Truthy(lead.Stage) THEN lead.Stage ELSE lead.current_stage

\* as FetchSingleStage, reading either field name
FetchSingleStage_Both(lead) == CurrentStage(lead)

FetchSingleStage(lead) == lead.Stage

\* as SkipCacheInWorker, but the worker writes the cache itself
SkipCacheInWorker_Off == FALSE

SkipCacheInWorker == TRUE

Stale(lead, cached) ==
    LET history == cached[lead.id]
        current_stage == CurrentStage(lead) IN
    /\ Truthy(current_stage)
    /\ history # << >>
    /\ Truthy(history[Len(history)].to_stage)
    /\ history[Len(history)].to_stage # current_stage

----------------------------------------------------------------------------
(* Notes: the latest upstream note of a lead, and the notes cache *)

NO_NOTES_MARKER == "__NO_NOTES__"

Note(content, time) == [content |-> content, time |-> time]

EmptyNote == Note("", None)

\* _fetch_latest_note_for_lead returns None
NoNote == Note(None, None)

\* an upstream note record; an absent field reads as None
UpstreamNote(Note_Content, Note_Title, Modified_Time) ==
    [Note_Content |-> Note_Content, Note_Title |-> Note_Title, Modified_Time |-> Modified_Time]

\* None and the empty string are false
TruthyText(x) == x # None /\ x # ""

\* re.sub(r"<[^>]+>", "", text).strip() on the note texts of the model
StripTags(text) ==
    IF text = "<p>Left voicemail</p>" THEN "Left voicemail"
    ELSE IF text = "<p></p>" THEN ""
    ELSE text

\* Lines 1124-1171: what the fetch makes of a response.
_fetch_latest_note_for_lead(notes, body) ==
    IF body # "json" \/ notes = << >> THEN NoNote
    ELSE LET latest_note == notes[1]
             raw == IF TruthyText(latest_note.Note_Content) THEN latest_note.Note_Content
                    ELSE IF TruthyText(latest_note.Note_Title) THEN latest_note.Note_Title
                    ELSE ""
             note_content == IF TruthyText(raw) THEN StripTags(raw) ELSE raw
         IN  IF TruthyText(note_content)
             THEN Note(note_content, latest_note.Modified_Time)
             ELSE NoNote

NotesRow(last_note, note_time, cached_at) ==
    [last_note |-> last_note, note_time |-> note_time, cached_at |-> cached_at]

\* as NoteData, without the translation of the marker
NoteData_KeepMarker(record) ==
    IF TruthyText(record.last_note) THEN Note(record.last_note, record.note_time)
    ELSE EmptyNote

\* cache.py lines 643-648: a row of the notes_cache table as a note
NoteData(record) ==
    IF record.last_note = NO_NOTES_MARKER THEN EmptyNote
    ELSE IF TruthyText(record.last_note) THEN Note(record.last_note, record.note_time)
    ELSE EmptyNote

\* the notes get_cached_notes returns, and the session cache it leaves
get_cached_notes(session_cache, table, lead_ids) ==
    LET ids == {lead_ids[i] : i \in 1..Len(lead_ids)}
        IsMissing(lead_id) == lead_id \notin DOMAIN session_cache
        missing_ids == SelectSeq(lead_ids, IsMissing)
        chunks == Chunks(missing_ids, BATCH_QUERY_CHUNK_SIZE)
        fetched_ids == UNION {{chunks[c][i] : i \in 1..Len(chunks[c])} \cap DOMAIN table
                              : c \in 1..Len(chunks)}
        missing == {missing_ids[i] : i \in 1..Len(missing_ids)}
    IN  [result |-> [id \in (ids \cap DOMAIN session_cache) \cup fetched_ids |->
                        IF id \in DOMAIN session_cache THEN session_cache[id]
                        ELSE NoteData(table[id])],
         session_cache |-> [id \in DOMAIN session_cache \cup missing |->
                        IF id \in DOMAIN session_cache THEN session_cache[id]
                        ELSE IF id \in fetched_ids THEN NoteData(table[id])
                        ELSE EmptyNote]]

set_cached_notes(table, notes, t) ==
    [id \in DOMAIN table \cup DOMAIN notes |->
        IF id \in DOMAIN notes THEN NotesRow(notes[id].content, notes[id].time, t)
        ELSE table[id]]

----------------------------------------------------------------------------
(* get_stage_histories_batch: the main thread and its pool of worker threads *)

\* what the CRM may answer to a timeline request: the answer, its Retry-After
\* header and, for a success, whether the body is the timeline or not JSON
Bodies(a) == IF a.exc = "none" /\ a.status < 400 THEN {"json", "invalid"} ELSE {"none"}

Reply(a, h, b) == [ans |-> a, hdr |-> h, body |-> b]

Ok200 == Reply([exc |-> "none", status |-> 200], NoHeader, "json")

Replies == {Reply(a, NoHeader, b) : a \in Answers, b \in {"json", "invalid", "none"}}

RepliesFor(id) ==
    IF upstream[id].free THEN {r \in Replies : r.body \in Bodies(r.ans)}
    ELSE IF reqs[id] <= Len(upstream[id].script) THEN {upstream[id].script[reqs[id]]}
    ELSE {Ok200}

\* the refresh exchange can happen only when the stored token is expired
PrefetchAnswers == {[outcome |-> "ok", e |-> 0], [outcome |-> "http_error", e |-> 0]}

\* as FreeWorker, but the pool never starts a thread
FreeWorker_None(running) == FALSE

\* as FreeWorker, but the pool starts a thread for every submitted fetch
FreeWorker_Unbounded(running) == TRUE

\* Line 899: the pool runs at most max_workers threads.
FreeWorker(running) == Cardinality(running) < MAX_WORKERS

\* Lines 829-881 (and 899-900 when fetches are submitted): the cache read, the
\* smart invalidation, and the pre-fetch of the token in the main thread.
BatchCall(ls, outcome, e) ==
    /\ kind = "stage"
    /\ UNCHANGED storeVars
    /\ bpc \in {"idle", "returned"}
    /\ ncall < MaxBatchCalls
    /\ ls \in inputs
    /\ LET lead_ids == [i \in 1..Len(ls) |-> ls[i].id]
           cached == get_cached_stage_histories_batch(cache, lead_ids, now)
           stale == {i \in 1..Len(ls) : ls[i].id \in DOMAIN cached /\ Stale(ls[i], cached)}
           hits == {ls[i].id : i \in {j \in 1..Len(ls) : ls[j].id \in DOMAIN cached} \ stale}
           IsUncached(lead) == lead.id \notin hits
           uncached_leads == SelectSeq(ls, IsUncached)
           g == get_access_token(Session, now, outcome, e)
       IN
        /\ result' = [id \in hits |-> ParseCached(cached[id])]
        /\ served' = hits
        /\ inval' = {ls[i].id : i \in stale}
        /\ IF uncached_leads = << >> THEN
              /\ bpc' = "returned"
              /\ queue' = << >>
              /\ prefetched_token' = NoToken
              /\ snap' = Session
              /\ UNCHANGED sessionVars
           ELSE
              /\ SetSession(g.s)
              /\ snap' = g.s
              /\ prefetched_token' = g.ret
              /\ IF g.ret = NoToken
                 THEN bpc' = "returned" /\ queue' = << >>
                 ELSE bpc' = "fetching" /\ queue' = uncached_leads
    /\ leads' = ls
    /\ workers' = EmptyMap
    /\ to_cache' = EmptyMap
    /\ reqs' = [id \in Ids(ls) |-> 0]
    /\ writes' = << >>
    /\ succeeded' = {}
    /\ ncall' = ncall + 1
    /\ started' = now
    /\ prev' = IF ncall = 0 THEN NoPrev
               ELSE [ran |-> TRUE, leads |-> leads, inval |-> inval, fetched |-> succeeded,
                     at |-> started, reqs |-> reqs, served |-> served,
                     token |-> prefetched_token, result |-> result]
    /\ UNCHANGED <<now, creds, mr, trace, gat, rft, tokVars, cache, notes_cache,
                   notes_cache_session, kind, upstream, inputs>>

\* Lines 1034-1071: get_notes_for_leads up to the submission of the fetches.
NotesCall(ls, outcome, e) ==
    /\ kind = "notes"
    /\ UNCHANGED storeVars
    /\ bpc \in {"idle", "returned"}
    /\ ncall < MaxBatchCalls
    /\ ls \in inputs
    /\ LET lead_ids == [i \in 1..Len(ls) |-> ls[i].id]
           got == get_cached_notes(notes_cache_session, notes_cache, lead_ids)
           cached_notes == got.result
           IsUncached(lead_id) == lead_id \notin DOMAIN cached_notes
           uncached_ids == SelectSeq(lead_ids, IsUncached)
           g == get_access_token(Session, now, outcome, e)
       IN
        /\ notes_cache_session' = got.session_cache
        /\ result' = cached_notes
        /\ served' = DOMAIN cached_notes
        /\ IF uncached_ids = << >> THEN
              /\ bpc' = "returned"
              /\ queue' = << >>
              /\ prefetched_token' = NoToken
              /\ snap' = Session
              /\ UNCHANGED sessionVars
           ELSE
              /\ SetSession(g.s)
              /\ snap' = g.s
              /\ prefetched_token' = g.ret
              /\ IF g.ret = NoToken
                 THEN bpc' = "returned" /\ queue' = << >>
                 ELSE /\ bpc' = "fetching"
                      /\ queue' = [i \in 1..Len(uncached_ids) |-> [id |-> uncached_ids[i]]]
    /\ leads' = ls
    /\ inval' = {}
    /\ workers' = EmptyMap
    /\ to_cache' = EmptyMap
    /\ reqs' = [id \in Ids(ls) |-> 0]
    /\ writes' = << >>
    /\ succeeded' = {}
    /\ ncall' = ncall + 1
    /\ started' = now
    /\ prev' = IF ncall = 0 THEN NoPrev
               ELSE [ran |-> TRUE, leads |-> leads, inval |-> inval, fetched |-> succeeded,
                     at |-> started, reqs |-> reqs, served |-> served,
                     token |-> prefetched_token, result |-> result]
    /\ UNCHANGED <<now, creds, mr, trace, gat, rft, tokVars, cache, notes_cache, kind,
                   upstream, inputs>>

\* Lines 886-896 and 308-334: a free worker thread takes the next submitted
\* fetch and sends its timeline request with the pre-fetched token.
WorkerStart ==
    /\ bpc = "fetching"
    /\ UNCHANGED storeVars
    /\ queue # << >>
    /\ FreeWorker(DOMAIN workers)
    /\ LET lead == Head(queue)
           c == MakeRequestEntry(Session, now, prefetched_token, TRUE, 0,
                                 NoRefresh.outcome, NoRefresh.e, << >>, gat, rft)
       IN
        /\ SetSession(c.s)
        /\ workers' = (lead.id :> [m |-> c.mr, lead |-> lead]) @@ workers
        /\ reqs' = [reqs EXCEPT ![lead.id] = @ + 1]
    /\ queue' = Tail(queue)
    /\ UNCHANGED <<now, creds, execVars, tokVars, cache, notes_cache, notes_cache_session,
                   kind, upstream, inputs, leads, bpc, result,
                   to_cache, prefetched_token, writes, inval, served, succeeded, ncall,
                   started, prev>>

\* Lines 956-1017: what the fetch makes of a response.
\* as FetchedHistory, returning a history whatever the body was
FetchedHistory_NeverNone(timeline_events, current_stage, t, body) ==
    [ok |-> TRUE, history |-> StageTransitions(timeline_events, current_stage, t)]

FetchedHistory(timeline_events, current_stage, t, body) ==
    IF body = "json"
    THEN [ok |-> TRUE, history |-> StageTransitions(timeline_events, current_stage, t)]
    ELSE [ok |-> FALSE, history |-> << >>]

\* Lines 337-430 in the worker thread, then lines 956-1017 (or 1124-1171 for a
\* note) and the collection by the main thread, lines 901-916 (or 1072-1086):
\* the request of lead id is answered.  The request is re-sent after a 429,
\* or the fetch ends and the main thread collects what it returned.
WorkerAnswer(id, reply) ==
    /\ bpc = "fetching"
    /\ UNCHANGED storeVars
    /\ id \in DOMAIN workers
    /\ reply \in RepliesFor(id)
    /\ LET w == workers[id]
           c == MakeRequestOnAnswer(Session, now, w.m, reply.ans, reply.hdr,
                                    NoRefresh.outcome, NoRefresh.e, << >>, gat, rft)
           f == IF c.mr.result = "response"
                THEN FetchedHistory(upstream[id].timeline, FetchSingleStage(w.lead), now,
                                    reply.body)
                ELSE [ok |-> FALSE, history |-> << >>]
           note == IF c.mr.result = "response"
                   THEN _fetch_latest_note_for_lead(upstream[id].notes, reply.body)
                   ELSE NoNote
       IN
        /\ SetSession(c.s)
        /\ now' = c.t
        /\ IF c.mr.pc = "wait" THEN
              /\ workers' = [workers EXCEPT ![id].m = c.mr]
              /\ reqs' = [reqs EXCEPT ![id] = @ + 1]
              /\ UNCHANGED <<cache, result, to_cache, writes, succeeded>>
           ELSE IF kind = "stage" THEN
              /\ workers' = Restrict(workers, DOMAIN workers \ {id})
              /\ reqs' = reqs
              /\ succeeded' = IF c.mr.result = "response" /\ reply.body = "json"
                              THEN succeeded \cup {id} ELSE succeeded
              /\ IF f.ok THEN
                    /\ result' = (id :> f.history) @@ result
                    /\ to_cache' = (id :> CacheData(f.history)) @@ to_cache
                    /\ IF SkipCacheInWorker
                       THEN UNCHANGED <<cache, writes>>
                       ELSE /\ cache' = set_cached_stage_history(cache, id,
                                                                 CacheData(f.history), now)
                            /\ writes' = Append(writes, [by |-> "worker", ids |-> {id}])
                 ELSE UNCHANGED <<cache, result, to_cache, writes>>
           ELSE
              /\ workers' = Restrict(workers, DOMAIN workers \ {id})
              /\ reqs' = reqs
              /\ result' = (id :> (IF note # NoNote THEN note ELSE EmptyNote)) @@ result
              /\ to_cache' = (id :> (IF note # NoNote THEN note
                                     ELSE Note(NO_NOTES_MARKER, None))) @@ to_cache
              /\ succeeded' = IF c.mr.result = "response" THEN succeeded \cup {id}
                              ELSE succeeded
              /\ UNCHANGED <<cache, writes>>
    /\ UNCHANGED <<creds, execVars, tokVars, notes_cache, notes_cache_session, kind,
                   upstream, inputs, leads, bpc, queue,
                   prefetched_token, inval, served, ncall, started, prev>>

\* Lines 918-923 (or 1088-1095): every fetch is collected; one batched cache
\* write, then return.
BatchFinish ==
    /\ bpc = "fetching"
    /\ UNCHANGED storeVars
    /\ queue = << >>
    /\ DOMAIN workers = {}
    /\ IF DOMAIN to_cache # {}
       THEN /\ IF kind = "stage"
               THEN /\ cache' = set_cached_stage_histories_batch(cache, to_cache, now)
                    /\ UNCHANGED notes_cache
               ELSE /\ notes_cache' = set_cached_notes(notes_cache, to_cache, now)
                    /\ UNCHANGED cache
            /\ writes' = Append(writes, [by |-> "main", ids |-> DOMAIN to_cache])
       ELSE UNCHANGED <<cache, notes_cache, writes>>
    /\ bpc' = "returned"
    /\ UNCHANGED <<now, creds, sessionVars, execVars, tokVars, notes_cache_session, kind,
                   upstream, inputs, leads, result,
                   queue, workers, to_cache, prefetched_token, reqs, inval, served,
                   succeeded, ncall, started, prev>>

\* the time that passes between two batch calls
AdvanceSteps == {CACHE_TTL, CACHE_TTL + 1}

Advance(d) ==
    /\ bpc = "returned"
    /\ UNCHANGED storeVars
    /\ ncall < MaxBatchCalls
    /\ now - started < CACHE_TTL
    /\ now' = now + d
    /\ UNCHANGED <<creds, sessionVars, execVars, tokVars, batchVars>>

NextBatch ==
    \/ \E ls \in inputs : \E r \in PrefetchAnswers : BatchCall(ls, r.outcome, r.e)
    \/ WorkerStart
    \/ \E id \in DOMAIN workers : \E reply \in RepliesFor(id) : WorkerAnswer(id, reply)
    \/ BatchFinish
    \/ \E d \in AdvanceSteps : Advance(d)

\* the session, the executor and the token callers before any batch call
InitClient ==
    /\ now = Now0
    /\ creds = TRUE
    /\ zoho_access_token = NoToken
    /\ zoho_token_expiry = NoExpiry
    /\ zoho_error = None
    /\ zoho_error_type = None
    /\ exchanges = 0
    /\ snap = Sess(NoToken, NoExpiry, 0, None, None)
    /\ mr = IdleCall
    /\ trace = << >>
    /\ gat = NoGat
    /\ rft = NoRft
    /\ callers = << >>
    /\ expiry_ex = NoToken

InitBatch ==
    /\ leads = << >>
    /\ bpc = "idle"
    /\ result = EmptyMap
    /\ queue = << >>
    /\ workers = EmptyMap
    /\ to_cache = EmptyMap
    /\ prefetched_token = NoToken
    /\ reqs = EmptyMap
    /\ writes = << >>
    /\ inval = {}
    /\ served = {}
    /\ succeeded = {}
    /\ ncall = 0
    /\ started = 0
    /\ prev = NoPrev

----------------------------------------------------------------------------
(* One lead, any timeline, any answer: what a batch call returns and caches *)

UpstreamEvents ==
    { TimelineEvent("Stage", None, StageA, Str(1)),
      TimelineEvent("Stage", StageA, StageB, Str(2)),
      TimelineEvent("Stage", StageA, None, NoTime),
      TimelineEvent("Owner", StageA, StageB, Str(3)) }

RECURSIVE Timelines(_)
Timelines(n) ==
    IF n = 0 THEN {<< >>}
    ELSE LET shorter == Timelines(n - 1) IN
         shorter \cup {Append(tl, ev) : tl \in shorter, ev \in UpstreamEvents}

\* the row an earlier fetch of the timeline wrote, for a lead that gave no stage
EarlierRow(timeline_events, t) ==
    Row(CacheData(StageTransitions(timeline_events, None, t)), t)

InitHist ==
    /\ InitClient
    /\ InitBatch
    /\ NoStore
    /\ \E tl \in Timelines(MaxEvents) :
          /\ upstream = (1 :> [timeline |-> tl, notes |-> << >>, free |-> TRUE, script |-> << >>])
          /\ cache \in {EmptyMap, (1 :> EarlierRow(tl, Now0))}
    /\ notes_cache = EmptyMap
    /\ notes_cache_session = EmptyMap
    /\ kind = "stage"
    /\ \E shape \in {"Stage", "current_stage"} :
          inputs = {<< Lead(1, shape, st) >> : st \in {StageA, StageB, None}}

SpecHist == InitHist /\ [][NextBatch]_vars

----------------------------------------------------------------------------
(* More leads than worker threads, each with a one-event timeline; the      *)
(* requests of one lead are answered by a script, all others succeed.  The  *)
(* session holds a valid token and the error of an earlier failed request.  *)

Status(st) == [exc |-> "none", status |-> st]
Exc(x) == [exc |-> x, status |-> 0]

Scripts ==
    { << >>,
      << Reply(Status(200), NoHeader, "invalid") >>,
      << Reply(Status(401), NoHeader, "none") >>,
      << Reply(Status(500), NoHeader, "none") >>,
      << Reply(Exc("timeout"), NoHeader, "none") >>,
      << Reply(Exc("connection"), NoHeader, "none") >>,
      << Reply(Status(429), NoHeader, "none") >>,
      << Reply(Status(429), NoHeader, "none"), Reply(Status(429), NoHeader, "none"),
         Reply(Status(429), NoHeader, "none") >> }

\* the lead whose requests are scripted
ScriptedLead == 2

PoolTimeline == << TimelineEvent("Stage", None, StageA, Str(1)) >>

\* the last lead has no note, the one before it a note without text
PoolNotes(id) ==
    IF id = PoolLeads THEN << >>
    ELSE IF id = PoolLeads - 1
    THEN << UpstreamNote("<p></p>", None, "2026-01-07T10:30:00-05:00") >>
    ELSE << UpstreamNote("<p>Left voicemail</p>", None, "2026-01-07T10:30:00-05:00") >>

InitPoolWith(scripts) ==
    /\ InitBatch
    /\ NoStore
    /\ now = Now0
    /\ creds = TRUE
    /\ \E st \in {Sess(1, Now0 + DefaultExpiresIn, 1, MSG_STATUS, ERROR_TYPE_UNKNOWN)} :
          /\ zoho_access_token = st.token
          /\ zoho_token_expiry = st.expiry
          /\ exchanges = st.ex
          /\ zoho_error = st.error
          /\ zoho_error_type = st.etype
          /\ snap = st
    /\ mr = IdleCall
    /\ trace = << >>
    /\ gat = NoGat
    /\ rft = NoRft
    /\ callers = << >>
    /\ expiry_ex = zoho_access_token
    /\ \E sc \in scripts :
          upstream = [id \in 1..PoolLeads |->
                         [timeline |-> PoolTimeline, notes |-> PoolNotes(id),
                          free |-> FALSE,
                          script |-> IF id = ScriptedLead THEN sc ELSE << >>]]
    /\ cache = (1 :> EarlierRow(PoolTimeline, Now0))
    /\ notes_cache = (1 :> NotesRow("Left voicemail", "2026-01-07T10:30:00-05:00", Now0))
    /\ notes_cache_session = EmptyMap
    /\ kind \in {"stage", "notes"}
    /\ inputs = {[id \in 1..PoolLeads |-> Lead(id, "Stage", StageA)]}

InitPool == InitPoolWith(Scripts)

\* the batch calls follow each other at once
NextPool ==
    \/ \E ls \in inputs : \E r \in PrefetchAnswers : BatchCall(ls, r.outcome, r.e)
    \/ \E ls \in inputs : \E r \in PrefetchAnswers : NotesCall(ls, r.outcome, r.e)
    \/ WorkerStart
    \/ \E id \in DOMAIN workers : \E reply \in RepliesFor(id) : WorkerAnswer(id, reply)
    \/ BatchFinish

SpecPool == InitPool /\ [][NextPool]_vars

\* every fetch succeeds; one fails; one is rate limited once and then succeeds
FairScripts ==
    { << >>,
      << Reply(Status(500), NoHeader, "none") >>,
      << Reply(Status(429), NoHeader, "none") >> }

\* a step of a worker thread or of the main thread collecting the fetches
PoolStep ==
    \/ WorkerStart
    \/ \E id \in DOMAIN workers : \E reply \in RepliesFor(id) : WorkerAnswer(id, reply)
    \/ BatchFinish

\* the threads run, and the CRM answers or the request times out
SpecPoolFair == InitPoolWith(FairScripts) /\ [][NextPool]_vars /\ WF_vars(PoolStep)

----------------------------------------------------------------------------
(* One lead, any note, any answer: what get_notes_for_leads returns and     *)
(* caches over two calls, in the same browser session or in a new one.      *)

NoteTime == "2026-01-07T10:30:00-05:00"

UpstreamNotes ==
    { << >>,
      << UpstreamNote("<p>Left voicemail</p>", None, NoteTime) >>,
      << UpstreamNote("<p></p>", None, NoteTime) >>,
      << UpstreamNote(None, "Follow up", NoteTime) >> }

\* the rows an earlier call may have left: a note or the marker, written just
\* now or more than the TTL ago
EarlierNotesRows ==
    {NotesRow(n, IF n = NO_NOTES_MARKER THEN None ELSE NoteTime, t) :
        n \in {"Left voicemail", NO_NOTES_MARKER}, t \in {Now0, Now0 - CACHE_TTL - 1}}

\* _init_session_state and cache.py lines 597-599: a new browser session
\* starts with an empty st.session_state.
NewSession ==
    /\ bpc = "returned"
    /\ UNCHANGED storeVars
    /\ ncall < MaxBatchCalls
    /\ notes_cache_session # EmptyMap
    /\ notes_cache_session' = EmptyMap
    /\ SetSession(Sess(NoToken, NoExpiry, exchanges, None, None))
    /\ UNCHANGED <<now, creds, execVars, tokVars, cache, notes_cache, kind, upstream, inputs,
                   leads, bpc, result, queue, workers, to_cache, prefetched_token, reqs,
                   writes, inval, served, succeeded, ncall, started, prev>>

InitNotes ==
    /\ InitClient
    /\ InitBatch
    /\ NoStore
    /\ cache = EmptyMap
    /\ kind = "notes"
    /\ notes_cache_session = EmptyMap
    /\ \E ns \in UpstreamNotes :
          upstream = (1 :> [timeline |-> << >>, notes |-> ns, free |-> TRUE, script |-> << >>])
    /\ notes_cache \in {EmptyMap} \cup {(1 :> row) : row \in EarlierNotesRows}
    /\ inputs = {<< [id |-> 1] >>}

NextNotes ==
    \/ \E ls \in inputs : \E r \in PrefetchAnswers : NotesCall(ls, r.outcome, r.e)
    \/ WorkerStart
    \/ \E id \in DOMAIN workers : \E reply \in RepliesFor(id) : WorkerAnswer(id, reply)
    \/ BatchFinish
    \/ \E d \in AdvanceSteps : Advance(d)
    \/ NewSession

SpecNotes == InitNotes /\ [][NextNotes]_vars

----------------------------------------------------------------------------
(* The cache store (src/src/cache.py) on its own: rows of any age, one      *)
(* write, and the reads that follow it as time passes.                      *)

\* how many chunks of keys a batch may span
MaxChunks == 2

\* how many writes a behaviour holds
MaxCacheWrites == 1

LEADS_CACHE_KEY == "leads_with_appointments"
DELIVERIES_CACHE_KEY == "deliveries"

\* Optional[list]: a list, which may be empty, or None
Some(v) == [found |-> TRUE, value |-> v]
Nothing == [found |-> FALSE, value |-> << >>]

\* as get_cached_stage_history, a row being expired from the TTL on
get_cached_stage_history_Strict(table, lead_id, t) ==
    IF lead_id \notin DOMAIN table THEN Nothing
    ELSE IF t - table[lead_id].cached_at >= CACHE_TTL THEN Nothing
    ELSE Some(table[lead_id].stage_history)

\* cache.py lines 58-91
get_cached_stage_history(table, lead_id, t) ==
    IF lead_id \notin DOMAIN table THEN Nothing
    ELSE IF t - table[lead_id].cached_at > CACHE_TTL THEN Nothing
    ELSE Some(table[lead_id].stage_history)

SnapshotRow(data, cached_at) == [data |-> data, cached_at |-> cached_at]

\* cache.py lines 246-277
get_cached_leads(table, t) ==
    IF LEADS_CACHE_KEY \notin DOMAIN table THEN Nothing
    ELSE IF t - table[LEADS_CACHE_KEY].cached_at > CACHE_TTL THEN Nothing
    ELSE Some(table[LEADS_CACHE_KEY].data)

\* cache.py lines 304-330
set_cached_leads(table, data, t) ==
    [k \in DOMAIN table \cup {LEADS_CACHE_KEY} |->
        IF k = LEADS_CACHE_KEY THEN SnapshotRow(data, t) ELSE table[k]]

\* cache.py lines 359-390
get_cached_deliveries(table, t) ==
    IF DELIVERIES_CACHE_KEY \notin DOMAIN table THEN Nothing
    ELSE IF t - table[DELIVERIES_CACHE_KEY].cached_at > CACHE_TTL THEN Nothing
    ELSE Some(table[DELIVERIES_CACHE_KEY].data)

\* cache.py lines 392-418
set_cached_deliveries(table, data, t) ==
    [k \in DOMAIN table \cup {DELIVERIES_CACHE_KEY} |->
        IF k = DELIVERIES_CACHE_KEY THEN SnapshotRow(data, t) ELSE table[k]]

\* The round trips to the store, each as the set of keys it carries.
\* cache.py lines 118-125 and 626-633: one select per chunk
SelectTrips(lead_ids) ==
    LET chunks == Chunks(lead_ids, BATCH_QUERY_CHUNK_SIZE)
    IN  [c \in 1..Len(chunks) |-> {chunks[c][i] : i \in 1..Len(chunks[c])}]

\* cache.py lines 203 and 690: one upsert of all the records
UpsertTrips(records) == IF records = EmptyMap THEN << >> ELSE << DOMAIN records >>

\* the lead ids a caller passes: 1, 2, ..., n
FirstIds(n) == [i \in 1..n |-> i]

KeyCounts ==
    {0, 1} \cup {k * BATCH_QUERY_CHUNK_SIZE + d : k \in 1..MaxChunks, d \in {-1, 0, 1}}

\* the histories written: a one-transition history for the odd ids, the empty
\* history of a lead that never changed stage for the even ones
HistoryOf(id) ==
    IF id % 2 = 1 THEN CacheData(StageTransitions(PoolTimeline, None, Now0)) ELSE << >>

HistoryMaps == {[id \in 1..n |-> HistoryOf(id)] : n \in KeyCounts}

NoteMaps ==
    {[id \in 1..n |-> IF id % 2 = 1 THEN Note("Left voicemail", NoteTime)
                      ELSE Note(NO_NOTES_MARKER, None)] :
        n \in {1, BATCH_QUERY_CHUNK_SIZE + 1}}

LeadsData == << [id |-> 1, Stage |-> StageA] >>
DeliveriesData == << [id |-> 7, Name |-> "delivery"] >>

CacheOp(op, keys, ret, trips) ==
    [op |-> op, keys |-> keys, ret |-> ret, at |-> now, trips |-> trips]

Written(op, m) == [n |-> wrote.n + 1, op |-> op, m |-> m, at |-> now]

idleVars ==
    <<creds, sessionVars, execVars, tokVars, kind, upstream, inputs, leads, bpc, result,
      queue, workers, to_cache, prefetched_token, reqs, writes, inval, served, succeeded,
      ncall, started, prev, lq, sh, cls, dash>>

SetStageHistoriesBatch(m) ==
    /\ wrote.n < MaxCacheWrites
    /\ cache' = IF m = EmptyMap THEN cache
                ELSE set_cached_stage_histories_batch(cache, m, now)
    /\ cop' = CacheOp("set_batch", DOMAIN m, m # EmptyMap, UpsertTrips(m))
    /\ wrote' = Written("set_batch", m)
    /\ UNCHANGED <<now, notes_cache, notes_cache_session, leads_cache, idleVars>>

GetStageHistoriesBatch(lead_ids) ==
    /\ cop' = CacheOp("get_batch", {lead_ids[i] : i \in 1..Len(lead_ids)},
                      get_cached_stage_histories_batch(cache, lead_ids, now),
                      SelectTrips(lead_ids))
    /\ UNCHANGED <<now, cache, notes_cache, notes_cache_session, leads_cache, wrote, idleVars>>

GetStageHistory(lead_id) ==
    /\ cop' = CacheOp("get_one", {lead_id}, get_cached_stage_history(cache, lead_id, now),
                      << {lead_id} >>)
    /\ UNCHANGED <<now, cache, notes_cache, notes_cache_session, leads_cache, wrote, idleVars>>

SetLeads(data) ==
    /\ wrote.n < MaxCacheWrites
    /\ leads_cache' = set_cached_leads(leads_cache, data, now)
    /\ cop' = CacheOp("set_leads", {LEADS_CACHE_KEY}, TRUE, << {LEADS_CACHE_KEY} >>)
    /\ wrote' = Written("set_leads", data)
    /\ UNCHANGED <<now, cache, notes_cache, notes_cache_session, idleVars>>

GetLeads ==
    /\ cop' = CacheOp("get_leads", {LEADS_CACHE_KEY}, get_cached_leads(leads_cache, now),
                      << {LEADS_CACHE_KEY} >>)
    /\ UNCHANGED <<now, cache, notes_cache, notes_cache_session, leads_cache, wrote, idleVars>>

SetDeliveries(data) ==
    /\ wrote.n < MaxCacheWrites
    /\ leads_cache' = set_cached_deliveries(leads_cache, data, now)
    /\ cop' = CacheOp("set_deliveries", {DELIVERIES_CACHE_KEY}, TRUE,
                      << {DELIVERIES_CACHE_KEY} >>)
    /\ wrote' = Written("set_deliveries", data)
    /\ UNCHANGED <<now, cache, notes_cache, notes_cache_session, idleVars>>

GetDeliveries ==
    /\ cop' = CacheOp("get_deliveries", {DELIVERIES_CACHE_KEY},
                      get_cached_deliveries(leads_cache, now), << {DELIVERIES_CACHE_KEY} >>)
    /\ UNCHANGED <<now, cache, notes_cache, notes_cache_session, leads_cache, wrote, idleVars>>

SetNotes(m) ==
    /\ wrote.n < MaxCacheWrites
    /\ notes_cache' = set_cached_notes(notes_cache, m, now)
    /\ cop' = CacheOp("set_notes", DOMAIN m, TRUE, UpsertTrips(m))
    /\ wrote' = Written("set_notes", m)
    /\ UNCHANGED <<now, cache, notes_cache_session, leads_cache, idleVars>>

GetNotes(lead_ids) ==
    LET r == get_cached_notes(notes_cache_session, notes_cache, lead_ids)
        missing == SelectSeq(lead_ids, LAMBDA id : id \notin DOMAIN notes_cache_session)
    IN  /\ notes_cache_session' = r.session_cache
        /\ cop' = CacheOp("get_notes", {lead_ids[i] : i \in 1..Len(lead_ids)}, r.result,
                          SelectTrips(missing))
        /\ UNCHANGED <<now, cache, notes_cache, leads_cache, wrote, idleVars>>

\* the clock steps that take a row written just now to the TTL and around it
TickSteps == {CACHE_TTL - 1, CACHE_TTL, CACHE_TTL + 1}

Tick(d) ==
    /\ now - Now0 < CACHE_TTL - 1
    /\ now' = now + d
    /\ UNCHANGED <<cache, notes_cache, notes_cache_session, leads_cache, cop, wrote, idleVars>>

\* rows left by earlier fetches: one younger than the TTL, one exactly as old,
\* one older
EarlierHistory == CacheData(StageTransitions(PoolTimeline, StageB, Now0 - CACHE_TTL - 1))

EarlierRows ==
    (1 :> Row(EarlierHistory, Now0 - CACHE_TTL + 1)) @@
    (2 :> Row(EarlierHistory, Now0 - CACHE_TTL)) @@
    (3 :> Row(EarlierHistory, Now0 - CACHE_TTL - 1))

EarlierSnapshots ==
    { EmptyMap,
      (LEADS_CACHE_KEY :> SnapshotRow(<< >>, Now0 - CACHE_TTL)) @@
      (DELIVERIES_CACHE_KEY :> SnapshotRow(<< >>, Now0 - CACHE_TTL - 1)) }

InitCache ==
    /\ InitClient
    /\ InitBatch
    /\ kind = "stage"
    /\ upstream = EmptyMap
    /\ inputs = {}
    /\ cache = EarlierRows
    /\ notes_cache = EmptyMap
    /\ notes_cache_session = EmptyMap
    /\ leads_cache \in EarlierSnapshots
    /\ cop = NoOp
    /\ wrote = NoWrite
    /\ lq = NoLeadsQuery
    /\ sh = NoStageCall
    /\ cls = NoCls
    /\ dash = NoDash

NextCache ==
    \/ \E m \in HistoryMaps : SetStageHistoriesBatch(m)
    \/ \E n \in KeyCounts : GetStageHistoriesBatch(FirstIds(n))
    \/ \E id \in 1..4 : GetStageHistory(id)
    \/ SetLeads(LeadsData)
    \/ GetLeads
    \/ SetDeliveries(DeliveriesData)
    \/ GetDeliveries
    \/ \E m \in NoteMaps : SetNotes(m)
    \/ \E n \in {1, BATCH_QUERY_CHUNK_SIZE + 1} : GetNotes(FirstIds(n))
    \/ \E d \in TickSteps : Tick(d)

SpecCache == InitCache /\ [][NextCache]_vars

----------------------------------------------------------------------------
(* get_leads_with_appointments: the leads query, its answer and the leads    *)
(* snapshot in the cache store.                                             *)

\* how many get_leads_with_appointments calls a behaviour holds
MaxLeadsCalls == 1

MSG_INVALID_RESPONSE == "Invalid response from Zoho CRM."
MSG_PROCESSING == "Error processing lead data"

\* a record of the COQL answer; an absent field reads as None
ZohoRecord(id, Stage, APPT_Date, Modified_Time) ==
    [id |-> id, Stage |-> Stage, APPT_Date |-> APPT_Date, Modified_Time |-> Modified_Time]

\* field_mapping.py lines 37-50 and zoho_client.py lines 553-576
_map_and_parse_lead(zoho_record) ==
    [id |-> zoho_record.id,
     current_stage |-> zoho_record.Stage,
     appointment_date |-> parse_zoho_date(zoho_record.APPT_Date),
     modified_time |-> parse_zoho_date(zoho_record.Modified_Time)]

SerializeDate(d) == IF d.type # "None" THEN isoformat(d) ELSE d
DeserializeDate(d) == IF d.type # "None" THEN parse_zoho_date(d) ELSE d

\* zoho_client.py lines 579-589
_serialize_leads_for_cache(ls) ==
    [i \in 1..Len(ls) |->
        [ls[i] EXCEPT !.appointment_date = SerializeDate(@), !.modified_time = SerializeDate(@)]]

\* zoho_client.py lines 592-602
_deserialize_leads_from_cache(ls) ==
    [i \in 1..Len(ls) |->
        [ls[i] EXCEPT !.appointment_date = DeserializeDate(@),
                      !.modified_time = DeserializeDate(@)]]

\* the bodies of a 2xx answer to the leads query: not JSON (or empty), JSON
\* that is no object, an object whose "data" is null, an object without
\* "data", and an object with the list of records
LeadsBodies == {"not_json", "not_object", "data_null", "no_data", "records"}

ZohoRecords ==
    { << >>,
      << ZohoRecord(1, StageA, Str(900), Str(950)) >>,
      << ZohoRecord(1, StageB, Str(900), NoTime), ZohoRecord(2, StageA, Str(800), Str(990)) >> }

\* lines 654-677: what the call does with the response: the outcome, the
\* leads it returns, the error it records and the snapshot it writes
LeadsFromResponse(s, table, t, body, records) ==
    IF body = "not_json" THEN
        [outcome |-> "invalid_json", ret |-> << >>, table |-> table,
         s |-> _set_error(s, MSG_INVALID_RESPONSE, ERROR_TYPE_UNKNOWN)]
    ELSE IF body \in {"not_object", "data_null"} THEN
        [outcome |-> "malformed", ret |-> << >>, table |-> table,
         s |-> _set_error(s, MSG_PROCESSING, ERROR_TYPE_UNKNOWN)]
    ELSE
        LET leads_data == IF body = "no_data" THEN << >> ELSE records
            fetched == [i \in 1..Len(leads_data) |-> _map_and_parse_lead(leads_data[i])]
        IN  [outcome |-> "fetched", ret |-> fetched, s |-> s,
             table |-> set_cached_leads(table, _serialize_leads_for_cache(fetched), t)]

\* Lines 630-652: the call starts; it returns the snapshot, or sends the query.
LeadsCall(bypass_cache, outcome, e) ==
    /\ mr.pc = "idle"
    /\ lq.pc \in {"idle", "returned"}
    /\ lq.n < MaxLeadsCalls
    /\ snap' = Session
    /\ LET cached_leads == get_cached_leads(leads_cache, now) IN
       IF ~bypass_cache /\ cached_leads.found
       THEN /\ lq' = [pc |-> "returned", n |-> lq.n + 1, bypass_cache |-> bypass_cache,
                      outcome |-> "cache",
                      ret |-> _deserialize_leads_from_cache(cached_leads.value),
                      before |-> leads_cache]
            /\ UNCHANGED <<now, sessionVars, mr, trace, gat, rft>>
       ELSE /\ lq' = [pc |-> "fetching", n |-> lq.n + 1, bypass_cache |-> bypass_cache,
                      outcome |-> "none", ret |-> << >>, before |-> leads_cache]
            /\ SetCall(MakeRequestEntry(Session, now, NoToken, TRUE, 0, outcome, e, << >>,
                                        gat, rft))
    /\ UNCHANGED <<creds, tokVars, batchVars, leads_cache, cop, wrote, sh, cls>>

\* Lines 654-677: _make_request has returned.
LeadsReturn(body, records) ==
    /\ lq.pc = "fetching"
    /\ mr.pc = "done"
    /\ IF mr.result = "None"
       THEN /\ lq' = [lq EXCEPT !.pc = "returned", !.outcome = "no_response", !.ret = << >>]
            /\ UNCHANGED <<sessionVars, leads_cache>>
       ELSE LET r == LeadsFromResponse(Session, leads_cache, now, body, records) IN
            /\ lq' = [lq EXCEPT !.pc = "returned", !.outcome = r.outcome, !.ret = r.ret]
            /\ SetSession(r.s)
            /\ leads_cache' = r.table
    /\ mr' = IdleCall
    /\ UNCHANGED <<now, creds, trace, snap, gat, rft, tokVars, batchVars, cop, wrote, sh, cls>>

\* the snapshots an earlier call may have left: none, one written a moment
\* ago, one exactly as old as the TTL, one older
LeadsSnapshots ==
    {EmptyMap} \cup
    {(LEADS_CACHE_KEY :>
        SnapshotRow(_serialize_leads_for_cache(
                        << _map_and_parse_lead(ZohoRecord(3, StageA, Str(700), Str(750))) >>),
                    Now0 - age)) : age \in {10, CACHE_TTL, CACHE_TTL + 1}}

InitLeads ==
    /\ now = Now0
    /\ creds \in BOOLEAN
    /\ \E st \in StartSessions(creds) :
          /\ zoho_access_token = st.token
          /\ zoho_token_expiry = st.expiry
          /\ exchanges = st.ex
          /\ zoho_error = st.error
          /\ zoho_error_type = st.etype
          /\ snap = st
    /\ mr = IdleCall
    /\ trace = << >>
    /\ gat = NoGat
    /\ rft = NoRft
    /\ callers = << >>
    /\ expiry_ex = zoho_access_token
    /\ NoBatch
    /\ leads_cache \in LeadsSnapshots
    /\ cop = NoOp
    /\ wrote = NoWrite
    /\ lq = NoLeadsQuery
    /\ sh = NoStageCall
    /\ cls = NoCls
    /\ dash = NoDash

NextLeads ==
    \/ \E bypass_cache \in BOOLEAN : \E r \in RefreshAnswers :
          LeadsCall(bypass_cache, r.outcome, r.e) /\ UNCHANGED dash
    \/ \E a \in Answers : \E r \in RefreshAfter(a) :
          lq.pc = "fetching" /\ Respond(a, NoHeader, r.outcome, r.e)
    \/ \E body \in LeadsBodies :
          \E records \in (IF body = "records" THEN ZohoRecords ELSE {<< >>}) :
              LeadsReturn(body, records) /\ UNCHANGED dash

SpecLeads == InitLeads /\ [][NextLeads]_vars

----------------------------------------------------------------------------
(* get_stage_history, zoho_client.py lines 680-809: the stage history of    *)
(* one lead, read from the stage-history cache or fetched from the timeline *)
(* of the CRM by the calling thread itself.                                 *)

\* how many get_stage_history calls a behaviour holds
MaxStageCalls == 1

\* the bodies of a 2xx answer to the timeline request: the timeline, text that
\* is not JSON, and JSON that is no object (or whose "__timeline" is null)
TimelineBodies == {"json", "invalid", "malformed"}

\* lines 711-720: the cached history is dropped when its last to_stage is not
\* the current stage
SmartInvalidated(cached, current_stage) ==
    /\ Truthy(current_stage)
    /\ cached # << >>
    /\ Truthy(cached[Len(cached)].to_stage)
    /\ cached[Len(cached)].to_stage # current_stage

\* as StageFromResponse, where a failed fetch is cached as an empty history
StageFromResponse_CacheFailure(table, lead_id, current_stage, t, body, timeline_events) ==
    IF body = "json"
    THEN LET stage_transitions == StageTransitions(timeline_events, current_stage, t) IN
         [outcome |-> "fetched", ret |-> [ok |-> TRUE, history |-> stage_transitions],
          table |-> set_cached_stage_history(table, lead_id, CacheData(stage_transitions), t)]
    ELSE [outcome |-> IF body = "invalid" THEN "invalid_json" ELSE "malformed",
          ret |-> [ok |-> FALSE, history |-> << >>],
          table |-> set_cached_stage_history(table, lead_id, << >>, t)]

\* lines 744-809: what the call does with the response; ret.ok is FALSE where
\* the call returns None
StageFromResponse(table, lead_id, current_stage, t, body, timeline_events) ==
    IF body = "json"
    THEN LET stage_transitions == StageTransitions(timeline_events, current_stage, t) IN
         [outcome |-> "fetched", ret |-> [ok |-> TRUE, history |-> stage_transitions],
          table |-> set_cached_stage_history(table, lead_id, CacheData(stage_transitions), t)]
    ELSE [outcome |-> IF body = "invalid" THEN "invalid_json" ELSE "malformed",
          ret |-> [ok |-> FALSE, history |-> << >>],
          table |-> table]

\* Lines 707-739: the call starts; it returns the cached history, or sends the
\* timeline request.
StageCall(lead_id, current_stage, outcome, e) ==
    /\ mr.pc = "idle"
    /\ sh.pc \in {"idle", "returned"}
    /\ sh.n < MaxStageCalls
    /\ snap' = Session
    /\ LET cached == get_cached_stage_history(cache, lead_id, now)
           call == [pc |-> "fetching", n |-> sh.n + 1, lead_id |-> lead_id,
                    current_stage |-> current_stage, outcome |-> "none",
                    ret |-> [ok |-> FALSE, history |-> << >>], before |-> cache,
                    response |-> "none", body |-> "none", timeline |-> << >>]
       IN
       IF cached.found /\ ~SmartInvalidated(cached.value, current_stage)
       THEN /\ sh' = [call EXCEPT !.pc = "returned", !.outcome = "cache",
                                  !.ret = [ok |-> TRUE, history |-> ParseCached(cached.value)]]
            /\ UNCHANGED <<now, sessionVars, mr, trace, gat, rft>>
       ELSE /\ sh' = call
            /\ SetCall(MakeRequestEntry(Session, now, NoToken, TRUE, 0, outcome, e, << >>,
                                        gat, rft))
    /\ UNCHANGED <<creds, tokVars, batchVars, leads_cache, cop, wrote, lq, cls, dash>>

\* Lines 739-809: _make_request has returned.
StageReturn(body, timeline_events) ==
    /\ sh.pc = "fetching"
    /\ mr.pc = "done"
    /\ IF mr.result = "None"
       THEN /\ sh' = [sh EXCEPT !.pc = "returned", !.outcome = "no_response",
                                !.ret = [ok |-> FALSE, history |-> << >>],
                                !.response = "None"]
            /\ UNCHANGED cache
       ELSE LET r == StageFromResponse(cache, sh.lead_id, sh.current_stage, now, body,
                                       timeline_events) IN
            /\ sh' = [sh EXCEPT !.pc = "returned", !.outcome = r.outcome, !.ret = r.ret,
                                !.response = "response", !.body = body,
                                !.timeline = timeline_events]
            /\ cache' = r.table
    /\ mr' = IdleCall
    /\ UNCHANGED <<now, creds, sessionVars, trace, snap, gat, rft, tokVars,
                   notes_cache, notes_cache_session, kind, upstream, inputs, leads, bpc,
                   result, queue, workers, to_cache, prefetched_token, reqs, writes, inval,
                   served, succeeded, ncall, started, prev,
                   leads_cache, cop, wrote, lq, cls, dash>>

\* the rows an earlier fetch may have left for lead 1: none, an empty history,
\* a history that ends in StageA, each fresh or older than the TTL
StageRows ==
    {EmptyMap} \cup
    {(1 :> Row(CacheData(StageTransitions(tl, None, Now0 - age)), Now0 - age)) :
        tl \in {<< >>, << TimelineEvent("Stage", None, StageA, Str(1)) >>},
        age \in {10, CACHE_TTL + 1}}

InitStage ==
    /\ now = Now0
    /\ creds \in BOOLEAN
    /\ \E st \in StartSessions(creds) :
          /\ zoho_access_token = st.token
          /\ zoho_token_expiry = st.expiry
          /\ exchanges = st.ex
          /\ zoho_error = st.error
          /\ zoho_error_type = st.etype
          /\ snap = st
    /\ mr = IdleCall
    /\ trace = << >>
    /\ gat = NoGat
    /\ rft = NoRft
    /\ callers = << >>
    /\ expiry_ex = zoho_access_token
    /\ InitBatch
    /\ cache \in StageRows
    /\ notes_cache = EmptyMap
    /\ notes_cache_session = EmptyMap
    /\ kind = "stage"
    /\ upstream = EmptyMap
    /\ inputs = {}
    /\ NoStore

NextStage ==
    \/ \E current_stage \in {None, StageA, StageB} : \E r \in RefreshAnswers :
          StageCall(1, current_stage, r.outcome, r.e)
    \/ \E a \in Answers : \E r \in RefreshAfter(a) :
          sh.pc = "fetching" /\ Respond(a, NoHeader, r.outcome, r.e)
    \/ \E body \in TimelineBodies :
          \E tl \in (IF body = "json" THEN Timelines(MaxEvents) ELSE {<< >>}) :
              StageReturn(body, tl)

SpecStage == InitStage /\ [][NextStage]_vars

----------------------------------------------------------------------------
(* data_processing.py: the classification of a lead.  A text is the        *)
(* sequence of its pieces (the characters of a name, the words and blanks  *)
(* of a stage or of an address); None and "" are both the empty sequence,  *)
(* which the code treats alike wherever it reads these fields.             *)

STALE_THRESHOLD_DAYS == 7
AT_RISK_THRESHOLD_DAYS == 5
STALE_NO_ACTIVITY_DAYS == 14
FUZZY_MATCH_THRESHOLD == 60
HIGH_CONFIDENCE_SCORE == 90
NO_ACTIVITY_DAYS == 9999
DAY == 86400

\* str.lower() on the pieces the model uses
LowerOf ==
    ("Appt" :> "appt") @@ ("Not" :> "not") @@ ("Acknowledged" :> "acknowledged") @@
    ("Set" :> "set") @@ ("Green" :> "green") @@ ("Approved" :> "approved") @@
    ("By" :> "by") @@ ("Locator" :> "locator") @@ ("Green/" :> "green/") @@
    ("Delivered" :> "delivered") @@ ("Red/" :> "red/") @@ ("Rejected" :> "rejected") @@
    ("Duplicate" :> "duplicate") @@ ("A" :> "a") @@ ("Main" :> "main") @@ ("St" :> "st")

lower(s) == [i \in 1..Len(s) |-> IF s[i] \in DOMAIN LowerOf THEN LowerOf[s[i]] ELSE s[i]]

RECURSIVE lstrip(_)
lstrip(s) == IF s # << >> /\ Head(s) = " " THEN lstrip(Tail(s)) ELSE s

RECURSIVE rstrip(_)
rstrip(s) == IF s # << >> /\ s[Len(s)] = " " THEN rstrip(SubSeq(s, 1, Len(s) - 1)) ELSE s

strip(s) == rstrip(lstrip(s))

\* sub in s
Contains(sub, s) ==
    \E i \in 1..(Len(s) - Len(sub) + 1) : SubSeq(s, i, i + Len(sub) - 1) = sub

\* the length of a longest common subsequence
RECURSIVE LCS(_, _)
LCS(a, b) ==
    IF a = << >> \/ b = << >> THEN 0
    ELSE IF Head(a) = Head(b) THEN 1 + LCS(Tail(a), Tail(b))
    ELSE LET x == LCS(Tail(a), b)
             y == LCS(a, Tail(b))
         IN  IF x >= y THEN x ELSE y

\* rapidfuzz.fuzz.ratio: 100 * 2 * LCS / (len(a) + len(b)), kept as a fraction
ratio(a, b) ==
    IF a = << >> /\ b = << >> THEN [num |-> 100, den |-> 1]
    ELSE [num |-> 200 * LCS(a, b), den |-> Len(a) + Len(b)]

AtLeast(score, k) == score.num >= k * score.den
Above(score, other) == score.num * other.den > other.num * score.den

APPT_NOT_ACKNOWLEDGED == << "Appt", " ", "Not", " ", "Acknowledged" >>
APPT_ACKNOWLEDGED == << "Appt", " ", "Acknowledged" >>
APPT_SET == << "Appt", " ", "Set" >>
GREEN_APPROVED == << "Green", " ", "-", " ", "Approved", " ", "By", " ", "Locator" >>
GREEN_DELIVERED == << "Green/", " ", "Delivered" >>
RED_REJECTED_DUPLICATE == << "Red/", " ", "Rejected", " ", "-", " ", "Duplicate" >>

\* data_processing.py lines 67-75
LEGACY_TERMINAL_STAGES ==
    { << "green/", " ", "delivered" >>, << "delivery", " ", "requested" >>,
      << "red/", " ", "rejected" >>, << "green/no", " ", "operator" >>,
      << "declined", " ", "by", " ", "operator" >>,
      << "green", " ", "-", " ", "lll", " ", "fulfilled" >>,
      << "red/not", " ", "viable" >> }

\* data_processing.py lines 390-401
TERMINAL_STAGES ==
    LEGACY_TERMINAL_STAGES \cup
    { << "green/delivered" >>, << "red/rejected" >>, << "green/no-operator" >> }

\* an optional day count: None, or the number of days
NoDays == [given |-> FALSE, v |-> 0]
Days(v) == [given |-> TRUE, v |-> v]

\* as get_lead_status, the stale threshold being that of the v2 classification
get_lead_status_FourteenDays(days_since, stage, days_since_modified) ==
    LET stage_lower == lower(stage) IN
    IF stage_lower \in LEGACY_TERMINAL_STAGES THEN "healthy"
    ELSE IF stage_lower = lower(GREEN_APPROVED) THEN
        (IF days_since_modified.given /\ days_since_modified.v > 7
         THEN "needs_attention" ELSE "healthy")
    ELSE IF days_since >= STALE_NO_ACTIVITY_DAYS THEN "stale"
    ELSE IF stage_lower = lower(APPT_NOT_ACKNOWLEDGED) THEN "at_risk"
    ELSE IF days_since >= AT_RISK_THRESHOLD_DAYS THEN "at_risk"
    ELSE "healthy"

\* as get_lead_status, a record modified exactly 7 days ago needing attention
get_lead_status_SevenDaysModified(days_since, stage, days_since_modified) ==
    LET stage_lower == lower(stage) IN
    IF stage_lower \in LEGACY_TERMINAL_STAGES THEN "healthy"
    ELSE IF stage_lower = lower(GREEN_APPROVED) THEN
        (IF days_since_modified.given /\ days_since_modified.v >= 7
         THEN "needs_attention" ELSE "healthy")
    ELSE IF days_since >= STALE_THRESHOLD_DAYS THEN "stale"
    ELSE IF stage_lower = lower(APPT_NOT_ACKNOWLEDGED) THEN "at_risk"
    ELSE IF days_since >= AT_RISK_THRESHOLD_DAYS THEN "at_risk"
    ELSE "healthy"

\* data_processing.py lines 43-96
get_lead_status(days_since, stage, days_since_modified) ==
    LET stage_lower == lower(stage) IN
    IF stage_lower \in LEGACY_TERMINAL_STAGES THEN "healthy"
    ELSE IF stage_lower = lower(GREEN_APPROVED) THEN
        (IF days_since_modified.given /\ days_since_modified.v > 7
         THEN "needs_attention" ELSE "healthy")
    ELSE IF days_since >= STALE_THRESHOLD_DAYS THEN "stale"
    ELSE IF stage_lower = lower(APPT_NOT_ACKNOWLEDGED) THEN "at_risk"
    ELSE IF days_since >= AT_RISK_THRESHOLD_DAYS THEN "at_risk"
    ELSE "healthy"

\* a delivery record; an absent or null field is the empty text
Delivery(id, name, locating_id, address, zip_code) ==
    [id |-> id, name |-> name, locating_id |-> locating_id, address |-> address,
     zip_code |-> zip_code]

\* as Verified, the address and the zip code being required of every lead
Verified_Strict(delivery, lead_address, lead_zip) ==
    /\ lead_address # << >> /\ lead_zip # << >>
    /\ \/ Contains(strip(lower(lead_address)), lower(delivery.address))
       \/ Contains(lower(delivery.address), strip(lower(lead_address)))
    /\ strip(lead_zip) = strip(delivery.zip_code)

\* lines 162-178: whether a candidate below the high-confidence score is taken
Verified(delivery, lead_address, lead_zip) ==
    IF lead_address # << >> /\ lead_zip # << >>
    THEN LET address_match ==
                 \/ Contains(strip(lower(lead_address)), lower(delivery.address))
                 \/ Contains(lower(delivery.address), strip(lower(lead_address)))
             zip_match == strip(lead_zip) = strip(delivery.zip_code)
         IN  address_match /\ zip_match
    ELSE TRUE

\* lines 147-178: the loop over the deliveries from the i-th on
RECURSIVE BestMatch(_, _, _, _, _, _, _)
BestMatch(deliveries, i, lead_name_lower, lead_address, lead_zip, best_match, best_score) ==
    IF i > Len(deliveries) THEN best_match
    ELSE LET delivery == deliveries[i]
             score == ratio(lead_name_lower, strip(lower(delivery.name)))
             take == /\ delivery.name # << >>
                     /\ AtLeast(score, FUZZY_MATCH_THRESHOLD) /\ Above(score, best_score)
                     /\ \/ AtLeast(score, HIGH_CONFIDENCE_SCORE)
                        \/ Verified(delivery, lead_address, lead_zip)
         IN  BestMatch(deliveries, i + 1, lead_name_lower, lead_address, lead_zip,
                       IF take THEN Some(delivery) ELSE best_match,
                       IF take THEN score ELSE best_score)

\* data_processing.py lines 107-186
find_matching_delivery(lead_id, lead_name, deliveries, lead_address, lead_zip) ==
    LET direct == {i \in 1..Len(deliveries) : deliveries[i].locating_id = lead_id} IN
    IF deliveries = << >> THEN Nothing
    ELSE IF direct # {} THEN Some(deliveries[CHOOSE i \in direct : \A j \in direct : i <= j])
    ELSE IF lead_name = << >> THEN Nothing
    ELSE BestMatch(deliveries, 1, strip(lower(lead_name)), lead_address, lead_zip,
                   Nothing, [num |-> 0, den |-> 1])

\* a date-only text such as "2026-01-05", which holds no "T"
DateOnly(t) == [type |-> "date", v |-> t]

\* datetime.fromisoformat on the text of a timestamp; None where it raises
fromisoformat(x) == IF x.type = "str" /\ x.v >= 0 THEN Datetime(x.v) ELSE NoTime

\* lines 267-278: the loop over the transitions from the i-th on
RECURSIVE LastChange(_, _, _)
LastChange(stage_history, i, last_activity) ==
    IF i > Len(stage_history) THEN last_activity
    ELSE LET raw == stage_history[i].changed_at
             changed_at == IF raw.type = "str" THEN fromisoformat(raw) ELSE raw
         IN  LastChange(stage_history, i + 1,
                        IF /\ changed_at.type = "datetime"
                           /\ (last_activity.type = "None" \/ changed_at.v > last_activity.v)
                        THEN changed_at ELSE last_activity)

\* lines 282-293 and 326-341: the time of a note, as a datetime or None
NoteDatetime(latest_note) ==
    IF latest_note = NoNote THEN NoTime
    ELSE LET note_time == latest_note.time IN
         IF note_time.type = "str" THEN fromisoformat(note_time)
         ELSE IF note_time.type = "datetime" THEN note_time
         ELSE NoTime

\* data_processing.py lines 250-306
get_days_since_last_activity(stage_history, latest_note, t) ==
    LET changed == LastChange(stage_history, 1, NoTime)
        note_time == NoteDatetime(latest_note)
        last_activity ==
            IF /\ note_time.type = "datetime"
               /\ (changed.type = "None" \/ note_time.v > changed.v)
            THEN note_time ELSE changed
    IN  IF last_activity.type = "None" THEN NO_ACTIVITY_DAYS
        ELSE (t - last_activity.v) \div DAY

\* data_processing.py lines 309-349
has_note_since_appointment(latest_note, appointment_date) ==
    LET note_time == NoteDatetime(latest_note) IN
    /\ latest_note # NoNote
    /\ appointment_date.type # "None"
    /\ note_time.type = "datetime"
    /\ note_time.v > appointment_date.v

\* data_processing.py lines 213-247
has_progressed_from_unacknowledged(stage_history, current_stage) ==
    LET stage_lower == lower(current_stage) IN
    \/ /\ current_stage # << >>
       /\ Contains(<< "acknowledged" >>, stage_lower)
       /\ ~Contains(<< "not", " ", "acknowledged" >>, stage_lower)
    \/ \E i \in 1..Len(stage_history) :
          LET from_stage == lower(stage_history[i].from_stage)
              to_stage == lower(stage_history[i].to_stage)
          IN  \/ Contains(<< "not", " ", "acknowledged" >>, from_stage)
              \/ /\ Contains(<< "acknowledged" >>, to_stage)
                 /\ ~Contains(<< "not", " ", "acknowledged" >>, to_stage)

\* a classification: the status and its reason, the text of the reason being
\* kept apart from the value formatted into it
Classified(status, reason, arg) == [status |-> status, reason |-> reason, arg |-> arg]

\* a lead dict as _map_and_parse_lead builds it; an absent or null text is the
\* empty text
ClsLead(id, name, current_stage, appointment_date, street_address, zip_code) ==
    [id |-> id, name |-> name, current_stage |-> current_stage,
     appointment_date |-> appointment_date, street_address |-> street_address,
     zip_code |-> zip_code]

\* as IsTerminal, no stage being terminal
IsTerminal_Never(stage_lower) == FALSE

\* lines 402-404
IsTerminal(stage_lower) == \E terminal \in TERMINAL_STAGES : Contains(terminal, stage_lower)

\* as StaleByInactivity, a lead without any activity not being stale
StaleByInactivity_KnownOnly(days_since_activity) ==
    /\ days_since_activity >= STALE_NO_ACTIVITY_DAYS
    /\ days_since_activity # NO_ACTIVITY_DAYS

\* line 434
StaleByInactivity(days_since_activity) == days_since_activity >= STALE_NO_ACTIVITY_DAYS

\* data_processing.py lines 352-447
get_lead_status_v2(lead, stage_history, latest_note, deliveries, t) ==
    LET stage_lower == lower(lead.current_stage)
        matching_delivery == find_matching_delivery(lead.id, lead.name, deliveries,
                                                    lead.street_address, lead.zip_code)
        days_since_activity == get_days_since_last_activity(stage_history, latest_note, t)
    IN
    IF IsTerminal(stage_lower) THEN
        Classified("healthy", "Completed - {current_stage}", lead.current_stage)
    ELSE IF matching_delivery.found THEN
        Classified("healthy", "Delivery record found: {delivery_name}",
                   matching_delivery.value.name)
    ELSE IF has_note_since_appointment(latest_note, lead.appointment_date) THEN
        Classified("healthy", "Actively worked - note added {date_str}",
                   NoteDatetime(latest_note))
    ELSE IF StaleByInactivity(days_since_activity) THEN
        Classified("stale", "No activity for {days_since_activity} days", days_since_activity)
    ELSE IF has_progressed_from_unacknowledged(stage_history, lead.current_stage) THEN
        Classified("needs_attention", "Stage progressed but no notes added since appointment",
                   None)
    ELSE Classified("at_risk", "Appointment has never been acknowledged", None)

\* the instant of the classification, datetime.now(timezone.utc)
ClsNow == 40 * DAY

DaysAgo(k) == ClsNow - k * DAY

\* the transitions a stage history of the model is made of
ClsTransitions ==
    { Transition(<< >>, APPT_NOT_ACKNOWLEDGED, Datetime(DaysAgo(20))),
      Transition(APPT_NOT_ACKNOWLEDGED, GREEN_APPROVED, Datetime(DaysAgo(3))),
      Transition(<< >>, GREEN_APPROVED, Datetime(DaysAgo(3))),
      Transition(APPT_SET, GREEN_APPROVED, Str(DaysAgo(3))),
      Transition(APPT_NOT_ACKNOWLEDGED, APPT_ACKNOWLEDGED, Datetime(DaysAgo(16))),
      Transition(APPT_SET, GREEN_APPROVED, Datetime(DaysAgo(14))),
      Transition(APPT_SET, GREEN_APPROVED, Datetime(DaysAgo(14) + 1)),
      Transition(APPT_SET, APPT_NOT_ACKNOWLEDGED, NoTime) }

\* how many transitions a stage history of the model holds at most
MaxHistory == 2

RECURSIVE ClsHistories(_)
ClsHistories(n) ==
    IF n = 0 THEN {<< >>}
    ELSE LET shorter == ClsHistories(n - 1) IN
         shorter \cup {Append(h, tr) : h \in shorter, tr \in ClsTransitions}

ClsNotes ==
    { NoNote, Note("text", NoTime), Note("text", Datetime(DaysAgo(5))),
      Note("text", Str(DaysAgo(15))), Note("text", DateOnly(DaysAgo(2))),
      Note("text", Datetime(DaysAgo(25))) }

ClsStages ==
    { << >>, APPT_NOT_ACKNOWLEDGED, APPT_ACKNOWLEDGED, APPT_SET, GREEN_APPROVED,
      GREEN_DELIVERED, RED_REJECTED_DUPLICATE }

LeadName == << "a", "b", "c", "d", "e", "f", "g", "h", "i", "j" >>
LeadAddress == << "12", " ", "Main", " ", "St" >>
LeadZip == << "75001" >>

\* deliveries: one that refers to lead L1, then deliveries without a reference
\* whose names are 100, 90, 88.9, 60 and 58.8 per cent similar to LeadName
ClsDeliveries ==
    { Delivery("D1", << "x", "y", "z" >>, "L1", << >>, << >>),
      Delivery("D2", << "A", "b", "c", "d", "e", "f", "g", "h", "i", "j", " " >>, None,
               << >>, << >>),
      Delivery("D3", << "a", "b", "c", "d", "e", "f", "g", "h", "i", "x" >>, None,
               << "9", " ", "Oak" >>, << "10001" >>),
      Delivery("D4", << "a", "b", "c", "d", "e", "f", "g", "h" >>, None,
               << "12", " ", "Main", " ", "St", " ", "Apt", " ", "4" >>, << "75001", " " >>),
      Delivery("D5", << "a", "b", "c", "d", "e", "f", "g", "h" >>, None,
               << "12", " ", "Main", " ", "St" >>, << "10001" >>),
      Delivery("D6", << "a", "b", "c", "d", "e", "f", "g", "h" >>, None,
               << "9", " ", "Oak" >>, << "75001" >>),
      Delivery("D7", << "a", "b", "c", "d", "e", "f", "w", "x", "y", "z" >>, None,
               << >>, << "75001" >>),
      Delivery("D8", << "a", "b", "c", "d", "e", "v", "w" >>, None,
               << "12", " ", "Main", " ", "St" >>, << "75001" >>) }

\* how many deliveries the delivery list of a matching holds at most
MaxDeliveries == 2

RECURSIVE DeliveryLists(_)
DeliveryLists(n) ==
    IF n = 0 THEN {<< >>}
    ELSE LET shorter == DeliveryLists(n - 1) IN
         shorter \cup {Append(ds, d) : ds \in shorter, d \in ClsDeliveries}

\* the day counts handed to the legacy classifier
LegacyDays == -2..16

\* the inputs of a classification by get_lead_status_v2
StatusInputs ==
    { [pc |-> "input", kind |-> "status",
       lead |-> ClsLead("L1", LeadName, stage, appointment_date, LeadAddress, LeadZip),
       stage_history |-> h, latest_note |-> n, deliveries |-> ds, out |-> << >>] :
         stage \in ClsStages,
         appointment_date \in {NoTime, Datetime(DaysAgo(10)), Datetime(DaysAgo(20))},
         h \in ClsHistories(MaxHistory), n \in ClsNotes,
         ds \in { << >>,
                  << Delivery("D1", << "x", "y", "z" >>, "L1", << >>, << >>) >>,
                  << Delivery("D8", << "a", "b", "c", "d", "e", "v", "w" >>, None,
                              << "12", " ", "Main", " ", "St" >>, << "75001" >>) >> } }

\* the inputs of a call of find_matching_delivery
MatchInputs ==
    { [pc |-> "input", kind |-> "match",
       lead |-> ClsLead("L1", name, << >>, NoTime, address, zip),
       deliveries |-> ds, out |-> << >>] :
         name \in {LeadName, << >>}, address \in {LeadAddress, << >>},
         zip \in {LeadZip, << >>}, ds \in DeliveryLists(MaxDeliveries) }

\* the inputs of a call of get_lead_status
LegacyInputs ==
    { [pc |-> "input", kind |-> "legacy", days_since |-> d, stage |-> stage,
       days_since_modified |-> m, out |-> << >>] :
         d \in LegacyDays, stage \in ClsStages, m \in {NoDays, Days(7), Days(8)} }

\* data_processing.py lines 37-40
calculate_days_since(appointment_date, t) == (t \div DAY) - (appointment_date.v \div DAY)

\* data_processing.py lines 451-459
STATUS_EMOJI_MAP ==
    [status \in {"stale", "at_risk", "needs_attention", "healthy"} |->
        CASE status = "stale" -> "U+1F534"
          [] status = "at_risk" -> "U+1F7E1"
          [] status = "needs_attention" -> "U+1F7E0"
          [] status = "healthy" -> "U+1F7E2"]

\* data_processing.py lines 508-524: the text "{emoji} {status}" is the pair of
\* its two parts, None is the pair of two None
format_status_display(status) ==
    IF status = None THEN [emoji |-> None, status |-> None]
    ELSE IF status \in DOMAIN STATUS_EMOJI_MAP
         THEN [emoji |-> STATUS_EMOJI_MAP[status], status |-> status]
         ELSE [emoji |-> None, status |-> status]

\* data_processing.py lines 634-673: the row format_leads_for_display builds for
\* one lead; stage_histories and notes are dicts keyed by lead id, NoMap is an
\* argument left out (None)
format_lead_for_display(lead, modified_time, stage_histories, notes, deliveries, t) ==
    LET days == IF lead.appointment_date.type = "datetime"
                THEN Days(calculate_days_since(lead.appointment_date, t)) ELSE NoDays
        use_v2_classification == stage_histories.given /\ deliveries.given
        classification ==
            IF use_v2_classification /\ lead.id # None THEN
                LET lead_stage_history ==
                        IF lead.id \in DOMAIN stage_histories.v
                        THEN stage_histories.v[lead.id] ELSE << >>
                    lead_note ==
                        IF notes.given /\ lead.id \in DOMAIN notes.v
                        THEN notes.v[lead.id] ELSE NoNote
                IN  get_lead_status_v2(lead, lead_stage_history, lead_note, deliveries.v, t)
            ELSE
                LET days_since_modified ==
                        IF modified_time.type = "datetime"
                        THEN Days(calculate_days_since(modified_time, t)) ELSE NoDays
                IN  Classified(IF days.given
                               THEN get_lead_status(days.v, lead.current_stage,
                                                    days_since_modified)
                               ELSE None, None, None)
    IN  [id |-> lead.id, Days |-> days,
         Status |-> format_status_display(classification.status),
         classification_reason |-> classification.reason,
         Stage |-> lead.current_stage]

\* an optional argument: left out, or given with a value
NoMap == [given |-> FALSE, v |-> << >>]
Given(v) == [given |-> TRUE, v |-> v]

\* the stage-history maps handed to the formatting: for no lead, for lead L1,
\* and for another lead only (the fetch of L1 failed and L1 was omitted)
FormatHistories ==
    {NoMap, Given(<< >>)}
      \cup {Given("L1" :> h) : h \in ClsHistories(1)}
      \cup {Given("L2" :> h) : h \in ClsHistories(1)}

FormatNotes ==
    {NoMap, Given(<< >>), Given("L1" :> Note("text", Datetime(DaysAgo(5)))),
     Given("L1" :> Note("text", Datetime(DaysAgo(25)))),
     Given("L2" :> Note("text", Datetime(DaysAgo(5))))}

\* the inputs of the formatting of one lead by format_leads_for_display
FormatInputs ==
    { [pc |-> "input", kind |-> "format",
       lead |-> ClsLead(id, LeadName, stage, appointment_date, LeadAddress, LeadZip),
       modified_time |-> modified_time, stage_histories |-> hs, notes |-> ns,
       deliveries |-> ds, out |-> << >>] :
         id \in {"L1", None},
         stage \in {<< >>, APPT_NOT_ACKNOWLEDGED, GREEN_APPROVED, GREEN_DELIVERED},
         appointment_date \in {NoTime, Datetime(DaysAgo(10))},
         modified_time \in {NoTime, Datetime(DaysAgo(8))},
         hs \in FormatHistories, ns \in FormatNotes,
         ds \in { NoMap, Given(<< >>),
                  Given(<< Delivery("D1", << "x", "y", "z" >>, "L1", << >>, << >>) >>) } }

otherVars ==
    <<creds, sessionVars, execVars, tokVars, batchVars, leads_cache, cop, wrote, lq, sh, dash>>

\* get_lead_status_v2 is applied to the lead
Classify ==
    /\ cls.pc = "input" /\ cls.kind = "status"
    /\ cls' = [cls EXCEPT !.pc = "done",
                          !.out = get_lead_status_v2(cls.lead, cls.stage_history,
                                                     cls.latest_note, cls.deliveries, now)]
    /\ UNCHANGED <<now, otherVars>>

\* find_matching_delivery is applied to the lead and the deliveries
MatchDelivery ==
    /\ cls.pc = "input" /\ cls.kind = "match"
    /\ cls' = [cls EXCEPT !.pc = "done",
                          !.out = find_matching_delivery(cls.lead.id, cls.lead.name,
                                      cls.deliveries, cls.lead.street_address,
                                      cls.lead.zip_code)]
    /\ UNCHANGED <<now, otherVars>>

\* get_lead_status is applied to the day count and the stage
ClassifyLegacy ==
    /\ cls.pc = "input" /\ cls.kind = "legacy"
    /\ cls' = [cls EXCEPT !.pc = "done",
                          !.out = get_lead_status(cls.days_since, cls.stage,
                                                  cls.days_since_modified)]
    /\ UNCHANGED <<now, otherVars>>

\* format_leads_for_display builds the row of the lead
FormatLead ==
    /\ cls.pc = "input" /\ cls.kind = "format"
    /\ cls' = [cls EXCEPT !.pc = "done",
                          !.out = format_lead_for_display(cls.lead, cls.modified_time,
                                      cls.stage_histories, cls.notes, cls.deliveries, now)]
    /\ UNCHANGED <<now, otherVars>>

InitClassify ==
    /\ now = ClsNow
    /\ creds = TRUE
    /\ zoho_access_token = NoToken
    /\ zoho_token_expiry = NoExpiry
    /\ zoho_error = None
    /\ zoho_error_type = None
    /\ exchanges = 0
    /\ snap = Sess(NoToken, NoExpiry, 0, None, None)
    /\ mr = IdleCall
    /\ trace = << >>
    /\ gat = NoGat
    /\ rft = NoRft
    /\ callers = << >>
    /\ expiry_ex = NoToken
    /\ NoBatch
    /\ leads_cache = EmptyMap
    /\ cop = NoOp
    /\ wrote = NoWrite
    /\ lq = NoLeadsQuery
    /\ sh = NoStageCall
    /\ dash = NoDash
    /\ cls \in StatusInputs \cup MatchInputs \cup LegacyInputs \cup FormatInputs

NextClassify == Classify \/ MatchDelivery \/ ClassifyLegacy \/ FormatLead

SpecClassify == InitClassify /\ [][NextClassify]_vars

----------------------------------------------------------------------------
(* app.py: the dashboard.  Streamlit runs the script from top to bottom;   *)
(* a button ends its handler with st.rerun(), which starts the next run.   *)
(* dash.pc is "idle" between runs, "rerun" when a run is due and           *)
(* "fetching" while fetch_and_cache_leads waits for the leads.             *)

MSG_PARTIAL == "Some data may be missing. Showing cached data."

\* the session state of the dashboard; has_leads is "leads" in st.session_state
Dashboard(pc, has_leads, loaded_leads, bypass_cache, refreshing, partial_error) ==
    [pc |-> pc, has_leads |-> has_leads, leads |-> loaded_leads,
     bypass_cache |-> bypass_cache, refreshing |-> refreshing,
     zoho_partial_error |-> partial_error, last_refresh |-> NoTime,
     had_cached_data |-> FALSE, shown |-> << >>, path |-> "load"]

\* the leads a run before this one loaded
LoadedLeads ==
    << _map_and_parse_lead(ZohoRecord(3, StageA, Str(700), Str(750))) >>

\* cache.py lines 280-301
get_leads_cache_age(table) ==
    IF LEADS_CACHE_KEY \in DOMAIN table THEN Datetime(table[LEADS_CACHE_KEY].cached_at)
    ELSE NoTime

\* app.py line 185
HadCachedData(d) == d.has_leads /\ d.leads # << >>

\* app.py lines 224-241: the Refresh button
RefreshButton ==
    /\ dash.pc = "idle"
    /\ ~dash.refreshing
    /\ dash' = [dash EXCEPT !.pc = "rerun", !.has_leads = FALSE, !.leads = << >>,
                            !.refreshing = TRUE, !.bypass_cache = TRUE,
                            !.shown = IF dash.has_leads THEN dash.leads ELSE << >>,
                            !.path = "refresh"]
    /\ notes_cache_session' = EmptyMap
    /\ notes_cache' = EmptyMap
    /\ UNCHANGED <<now, creds, sessionVars, execVars, tokVars, cache, kind, upstream, inputs,
                   leads, bpc, result, queue, workers, to_cache, prefetched_token, reqs,
                   writes, inval, served, succeeded, ncall, started, prev,
                   leads_cache, cop, wrote, lq, sh, cls>>

\* app.py lines 1649-1652 and 244-263: the Retry button, which is on the
\* screen when an error is recorded, no lead is loaded and the error is no
\* authentication error
RetryButton ==
    /\ dash.pc = "idle"
    /\ zoho_error # None
    /\ dash.leads = << >>
    /\ zoho_error_type # ERROR_TYPE_AUTH
    /\ SetSession(_clear_error(Session))
    /\ dash' = [dash EXCEPT !.pc = "rerun", !.has_leads = FALSE, !.leads = << >>,
                            !.shown = << >>, !.path = "retry"]
    /\ UNCHANGED <<now, creds, execVars, tokVars, batchVars, leads_cache, cop, wrote, lq, sh,
                   cls>>

\* app.py lines 1639-1644 and 185-191: the script runs; when no leads are in
\* the session it calls fetch_and_cache_leads, which asks for the leads
DashboardRun(outcome, e) ==
    /\ dash.pc = "rerun"
    /\ IF dash.has_leads
       THEN /\ dash' = [dash EXCEPT !.pc = "idle"]
            /\ UNCHANGED <<now, sessionVars, execVars, lq>>
       ELSE /\ dash' = [dash EXCEPT !.pc = "fetching", !.bypass_cache = FALSE,
                                    !.had_cached_data = HadCachedData(dash),
                                    !.zoho_partial_error = None]
            /\ LeadsCall(dash.bypass_cache, outcome, e)
    /\ UNCHANGED <<creds, tokVars, batchVars, leads_cache, cop, wrote, sh, cls>>

\* app.py lines 192-211: get_leads_with_appointments has returned
DashboardFetched ==
    /\ dash.pc = "fetching"
    /\ lq.pc = "returned"
    /\ mr.pc = "idle"
    /\ LET fetched == lq.ret
           error == zoho_error
           cache_age == get_leads_cache_age(leads_cache)
           d == [dash EXCEPT !.pc = "idle", !.refreshing = FALSE]
       IN
       IF fetched # << >>
       THEN /\ dash' = [d EXCEPT !.has_leads = TRUE, !.leads = fetched,
                                 !.last_refresh = IF cache_age.type # "None" THEN cache_age
                                                  ELSE Datetime(now)]
            /\ SetSession(_clear_error(Session))
       ELSE IF dash.had_cached_data /\ error # None
       THEN /\ dash' = [d EXCEPT !.zoho_partial_error = MSG_PARTIAL]
            /\ UNCHANGED sessionVars
       ELSE /\ dash' = [d EXCEPT !.has_leads = TRUE, !.leads = << >>,
                                 !.last_refresh = Datetime(now)]
            /\ UNCHANGED sessionVars
    /\ UNCHANGED <<now, creds, execVars, tokVars, batchVars, leads_cache, cop, wrote, lq, sh,
                   cls>>

\* the dashboard when the model starts: at the first run of a session, or
\* between two runs with leads on the screen, or with none after a failure
InitDash ==
    /\ now = Now0
    /\ creds \in BOOLEAN
    /\ \E st \in StartSessions(creds) :
          /\ zoho_access_token = st.token
          /\ zoho_token_expiry = st.expiry
          /\ exchanges = st.ex
          /\ zoho_error = st.error
          /\ zoho_error_type = st.etype
          /\ snap = st
    /\ mr = IdleCall
    /\ trace = << >>
    /\ gat = NoGat
    /\ rft = NoRft
    /\ callers = << >>
    /\ expiry_ex = zoho_access_token
    /\ NoBatch
    /\ leads_cache \in LeadsSnapshots
    /\ cop = NoOp
    /\ wrote = NoWrite
    /\ lq = NoLeadsQuery
    /\ sh = NoStageCall
    /\ cls = NoCls
    /\ \/ dash = Dashboard("rerun", FALSE, << >>, FALSE, FALSE, None)
       \/ dash = Dashboard("idle", TRUE, LoadedLeads, FALSE, FALSE, None)
       \/ zoho_error # None /\ dash = Dashboard("idle", TRUE, << >>, FALSE, FALSE, None)

NextDash ==
    \/ RefreshButton
    \/ RetryButton
    \/ \E r \in RefreshAnswers : DashboardRun(r.outcome, r.e)
    \/ \E a \in Answers : \E r \in RefreshAfter(a) :
          lq.pc = "fetching" /\ Respond(a, NoHeader, r.outcome, r.e)
    \/ \E body \in LeadsBodies :
          \E records \in (IF body = "records" THEN ZohoRecords ELSE {<< >>}) :
              LeadsReturn(body, records) /\ UNCHANGED dash
    \/ DashboardFetched

SpecDash == InitDash /\ [][NextDash]_vars

----------------------------------------------------------------------------
(* Claims about the batch fetch *)

\* C6: while the workers of a batch run their requests with the pre-fetched
\* token, the stored token, its expiry, the recorded error message and the
\* recorded error kind stay what they were when the workers were started,
\* whatever the CRM answers; and every cache write of the batch call is made by
\* the main thread.
C6_WorkersLeaveSessionAndCache ==
    /\ bpc = "fetching" =>
          /\ zoho_access_token = snap.token
          /\ zoho_token_expiry = snap.expiry
          /\ zoho_error = snap.error
          /\ zoho_error_type = snap.etype
    /\ \A i \in 1..Len(writes) : writes[i].by = "main"

\* the scripted lead was rate limited three times and its fetch failed, other
\* fetches succeeded, and the error of the earlier request is still recorded
C6_Witness ==
    /\ bpc = "returned"
    /\ reqs[ScriptedLead] = MAX_RATE_LIMIT_RETRIES + 1
    /\ ScriptedLead \notin succeeded
    /\ succeeded # {}
    /\ Len(writes) = 1
    /\ zoho_error = MSG_STATUS

\* C7: at no moment of a batch fetch are more than 10 timeline requests in flight.
C7_AtMostTenInFlight == Cardinality(DOMAIN workers) <= 10

\* ten requests are in flight and a fetch is still waiting for a thread
C7_Witness == Cardinality(DOMAIN workers) = 10 /\ queue # << >>

\* C8: under fair scheduling of the workers and of the answers every batch
\* call that started fetches returns, and what it returns holds one entry for
\* every lead served from the cache and one for every lead whose fetch
\* succeeded; a stage-history batch returns no other entry.
C8_TerminatesWithAllResults ==
    (bpc = "fetching") ~>
        (/\ bpc = "returned"
         /\ served \cup succeeded \subseteq DOMAIN result
         /\ kind = "stage" => DOMAIN result = served \cup succeeded
         /\ served \cap succeeded = {})

\* a call over more uncached leads than threads returned with every fetch succeeded
C8_Witness ==
    /\ kind = "stage"
    /\ bpc = "returned"
    /\ Cardinality(succeeded) > MAX_WORKERS
    /\ served # {}
    /\ Cardinality(DOMAIN result) = Len(leads)

EndsIn(history, stage) == history # << >> /\ history[Len(history)].to_stage = stage

LeadOf(id) == leads[CHOOSE i \in 1..Len(leads) : leads[i].id = id]

\* the stage changes the CRM reports for the lead, in time order
Reported(id) == SortByChangedAt(ExtractTransitions(upstream[id].timeline))

\* the batch call refetched the lead because of a stage mismatch, its one
\* timeline request was answered with the timeline, and the CRM reports at
\* least one stage change, the last of them to a stage
RefetchedAtOnce(id) ==
    /\ id \in inval
    /\ id \in succeeded
    /\ reqs[id] = 1
    /\ Reported(id) # << >>
    /\ Truthy(Reported(id)[Len(Reported(id))].to_stage)

\* C9: when a batch call refetches a lead whose fresh cached history ends in a
\* stage other than the caller's current stage B, and the one request it sends
\* is answered with a timeline that reports stage changes, the history it
\* returns and the history it caches end in a transition to B.
C9_AsStated ==
    (kind = "stage" /\ bpc = "returned") =>
        \A id \in inval :
            RefetchedAtOnce(id) =>
                /\ id \in DOMAIN result
                /\ EndsIn(result[id], CurrentStage(LeadOf(id)))
                /\ id \in DOMAIN cache
                /\ EndsIn(cache[id].stage_history, CurrentStage(LeadOf(id)))

\* C10: a batch call that follows, within the TTL and with the same leads, a
\* call that refetched a lead because of a stage mismatch and fetched it
\* successfully sends no timeline request for that lead.
C10_AsStated ==
    (kind = "stage" /\ prev.ran /\ leads = prev.leads /\ started - prev.at <= CACHE_TTL) =>
        \A id \in prev.inval \cap prev.fetched : reqs[id] = 0

----------------------------------------------------------------------------
(* Claims about failures inside a batch *)

\* the leads this call sent a request for and whose fetch got no usable answer
FailedFetches == {id \in DOMAIN reqs : reqs[id] > 0 /\ id \notin succeeded}

WrittenIds == UNION {writes[i].ids : i \in 1..Len(writes)}

\* C11: when get_notes_for_leads has returned, a lead whose fetch got no
\* response (HTTP error, timeout, connection failure, rate limit) is not in
\* the result and nothing was written to the notes cache for it.
C11_AsStated ==
    (kind = "notes" /\ bpc = "returned") =>
        \A id \in FailedFetches : id \notin DOMAIN result /\ id \notin WrittenIds

\* C12: when get_stage_histories_batch has returned and the fetch of some
\* lead failed, that lead is not in the result and nothing was written to the cache for it,
\* while every other requested lead is in the result with its history: the
\* cached one, parsed, or the one the CRM reports.
C12_OthersStillReturned ==
    (kind = "stage" /\ bpc = "returned" /\ FailedFetches # {}) =>
        \A id \in Ids(leads) :
            IF id \in FailedFetches
            THEN id \notin DOMAIN result /\ id \notin DOMAIN to_cache /\ id \notin WrittenIds
            ELSE /\ id \in DOMAIN result
                 /\ result[id] = IF id \in served
                                 THEN ParseCached(cache[id].stage_history)
                                 ELSE Reported(id)
                 /\ id \in served \/ id \in WrittenIds

C12_Witness ==
    /\ kind = "stage" /\ bpc = "returned"
    /\ FailedFetches = {ScriptedLead}
    /\ 1 \in served
    /\ DOMAIN result = Ids(leads) \ {ScriptedLead}
    /\ WrittenIds = Ids(leads) \ {1, ScriptedLead}

\* C17: one get_stage_histories_batch call writes the cache at most once:
\* nothing is written while a fetch is queued or in flight, and when the
\* call has returned the only write is one batched upsert by the main
\* thread of exactly the ids whose fetch succeeded, each with the history
\* the call returned for it, and there is no write if no fetch succeeded.
C17_OneBatchedWrite ==
    kind = "stage" =>
        /\ Len(writes) <= 1
        /\ bpc = "fetching" => writes = << >>
        /\ bpc = "returned" =>
              /\ writes = IF succeeded = {} THEN << >>
                          ELSE << [by |-> "main", ids |-> succeeded] >>
              /\ \A id \in succeeded :
                    /\ cache[id].stage_history = CacheData(result[id])
                    /\ cache[id].cached_at >= started

\* ten fetches succeeded and one failed, and one upsert carried the ten
C17_Witness ==
    /\ kind = "stage" /\ bpc = "returned"
    /\ ScriptedLead \in FailedFetches
    /\ Cardinality(succeeded) = PoolLeads - 2
    /\ Len(writes) = 1
    /\ writes[1].ids = succeeded

\* the transitions are in non-decreasing changed_at order, one without a
\* changed_at counting as the earliest, as in the sort
OldestFirst(history) ==
    \A i, j \in 1..Len(history) : i < j => SortKey(history[i]) <= SortKey(history[j])

\* the transitions of the timeline carry the time of a change made before the
\* first fetch; a synthetic transition carries the time of its fetch
IsSynthetic(transition) ==
    transition.changed_at.type # "None" /\ transition.changed_at.v >= Now0

SyntheticLast(history) ==
    \A i \in 1..Len(history) : IsSynthetic(history[i]) => i = Len(history)

\* C19: every stage history a batch call returns, collects for the cache
\* or leaves in the cache lists its transitions oldest first, and a
\* synthetic transition is its last element.
C19_OldestFirst ==
    kind = "stage" =>
        /\ \A id \in DOMAIN result : OldestFirst(result[id]) /\ SyntheticLast(result[id])
        /\ \A id \in DOMAIN to_cache : OldestFirst(to_cache[id]) /\ SyntheticLast(to_cache[id])
        /\ \A id \in DOMAIN cache :
              OldestFirst(cache[id].stage_history) /\ SyntheticLast(cache[id].stage_history)

\* the timeline listed the later change first; the call returned and cached
\* the two changes oldest first, followed by the synthetic transition
C19_Witness ==
    /\ kind = "stage" /\ bpc = "returned"
    /\ \E id \in DOMAIN result \cap succeeded :
          LET tl == upstream[id].timeline
              h == result[id]
          IN  /\ Len(tl) = 2 /\ Len(h) = 3
              /\ tl[1].audited_time.v > tl[2].audited_time.v
              /\ h[1].changed_at.v < h[2].changed_at.v
              /\ IsSynthetic(h[3])
              /\ cache[id].stage_history = CacheData(h)

----------------------------------------------------------------------------
(* Claims about the recorded error *)

\* a _make_request call that pulled its own token has ended without a response
FailedCall == MakeRequestDone /\ mr.result = "None" /\ mr.pre = NoToken /\ trace # << >>

\* why the call failed, read off the last thing it saw
FailureCause ==
    LET last == trace[Len(trace)] IN
    IF last.ev = "timeout" THEN "timeout"
    ELSE IF last.ev = "connection" THEN "connection"
    ELSE IF last.ev = "ans" /\ last.v = 429 THEN "rate_limit"
    ELSE IF last.ev = "ans" /\ last.v >= 400 /\ last.v # 401 THEN "http"
    ELSE IF \/ last.ev = "refresh_unsent"
            \/ last.ev = "refresh_failed" /\ zoho_error = MSG_SESSION THEN "authentication"
    ELSE "other"

\* the kinds recorded for a connection failure, a timeout, an authentication
\* failure and an HTTP error status
KindOf(cause) ==
    IF cause = "connection" THEN ERROR_TYPE_CONNECTION
    ELSE IF cause = "timeout" THEN ERROR_TYPE_TIMEOUT
    ELSE IF cause = "authentication" THEN ERROR_TYPE_AUTH
    ELSE ERROR_TYPE_UNKNOWN

FourCauses == {"connection", "timeout", "authentication", "http"}

FourCausesKinds ==
    (FailedCall /\ FailureCause \in FourCauses) => zoho_error_type = KindOf(FailureCause)

\* C20: the kind recorded by a failed call tells its cause: a connection
\* failure, a timeout, an authentication failure and an HTTP error status
\* each record their own kind, and rate-limit exhaustion records a kind that
\* is none of these four.
C20_AsStated ==
    /\ FourCausesKinds
    /\ (FailedCall /\ FailureCause = "rate_limit") =>
          zoho_error_type \notin {KindOf(c) : c \in FourCauses}

\* C21: when a _make_request call that was given no pre-fetched token has
\* returned a response, the recorded error message and the recorded error
\* kind are both None, whatever was recorded before the call.
C21_SuccessClearsError ==
    (MakeRequestDone /\ mr.result = "response" /\ mr.pre = NoToken) =>
        zoho_error = None /\ zoho_error_type = None

\* an error was recorded before the call, the call used the stored token
\* without refreshing it, and its first request was answered 200
C21_Witness ==
    /\ MakeRequestDone /\ mr.result = "response" /\ mr.pre = NoToken
    /\ snap.error # None /\ snap.etype # None
    /\ Count(trace, RefreshEvs) = 0
    /\ Count(trace, AnswerEvs) = 1
    /\ zoho_error = None /\ zoho_error_type = None

----------------------------------------------------------------------------
(* Claims about the notes cache *)

\* the second of two get_notes_for_leads calls has returned, for a lead that
\* has no notes in the CRM and that the first call did not find in the cache
SecondNotesCallDone ==
    /\ kind = "notes" /\ bpc = "returned" /\ ncall = 2 /\ prev.ran
    /\ upstream[1].notes = << >>
    /\ 1 \notin prev.served

C15_AsStated ==
    (kind = "notes" /\ bpc # "idle") =>
        \A id \in Ids(leads) \cap DOMAIN notes_cache :
            (id \notin WrittenIds /\ started - notes_cache[id].cached_at > CACHE_TTL) =>
                /\ id \notin served
                /\ (bpc = "returned" /\ prefetched_token # NoToken) => reqs[id] > 0

----------------------------------------------------------------------------
(* Claims about the cache store *)

\* a row is fresh at time t when it is at most 24 h old
Fresh(row, t) == t - row.cached_at <= CACHE_TTL_HOURS * 3600

\* what a read of one row at time cop.at has to return
Expected(table, key, payload) ==
    IF key \in DOMAIN table /\ Fresh(table[key], cop.at) THEN Some(table[key][payload])
    ELSE Nothing

ReadBackBatch ==
    /\ wrote.op = "set_batch"
    /\ cop.op = "get_batch"
    /\ cop.keys = DOMAIN wrote.m

C18_AsStated ==
    cop.op \in {"get_batch", "set_batch", "set_notes"} =>
        LET n == Cardinality(cop.keys)
        IN  /\ \A i \in 1..Len(cop.trips) :
                  Cardinality(cop.trips[i]) <= BATCH_QUERY_CHUNK_SIZE
            /\ Len(cop.trips) = (n + BATCH_QUERY_CHUNK_SIZE - 1) \div BATCH_QUERY_CHUNK_SIZE
            /\ UNION {cop.trips[i] : i \in 1..Len(cop.trips)} = cop.keys
            /\ \A i, j \in 1..Len(cop.trips) : i # j => cop.trips[i] \cap cop.trips[j] = {}

----------------------------------------------------------------------------
(* Claims about the leads query *)

LeadsQueryFailed ==
    lq.pc = "returned" /\ lq.outcome \in {"no_response", "invalid_json", "malformed"}

\* C22: when the leads query has failed, get_leads_with_appointments has
\* returned an empty list, an error message and its kind are recorded, and
\* the leads snapshot in the cache is as it was before the call.
C22_AsStated ==
    LeadsQueryFailed =>
        /\ lq.ret = << >>
        /\ zoho_error # None /\ zoho_error_type # None
        /\ leads_cache = lq.before

----------------------------------------------------------------------------
(* Claims about get_stage_history *)

StageCallFailed ==
    sh.pc = "returned" /\ (sh.response = "None" \/ sh.body = "invalid")

NoStageChange ==
    /\ sh.pc = "returned" /\ sh.response = "response" /\ sh.body = "json"
    /\ \A i \in 1..Len(sh.timeline) : sh.timeline[i].api_name # "Stage"

\* C23: get_stage_history returns None when the upstream call gave no
\* response or a body that is not valid JSON, and nothing is then written to
\* the stage-history cache; it returns an empty list when the timeline holds
\* no stage change.
C23_NoneOnFailureEmptyOnNoChange ==
    /\ StageCallFailed => ~sh.ret.ok /\ cache = sh.before
    /\ NoStageChange => sh.ret = [ok |-> TRUE, history |-> << >>]

C23_Witness ==
    /\ StageCallFailed /\ sh.body = "invalid"
    /\ sh.before # EmptyMap
    /\ sh.current_stage = StageB

----------------------------------------------------------------------------
(* Claims about the classification of a lead *)

Classification == cls.pc = "done" /\ cls.kind = "status"

\* the instants of the lead's stage changes and of its latest note
ActivityTimes ==
    LET Instant(x) == IF x.type = "datetime" \/ (x.type = "str" /\ x.v >= 0) THEN {x.v}
                      ELSE {}
    IN  UNION {Instant(cls.stage_history[i].changed_at) : i \in 1..Len(cls.stage_history)}
        \cup (IF cls.latest_note = NoNote THEN {} ELSE Instant(cls.latest_note.time))

\* whole days since the most recent activity; 9999 when the lead has none
InactiveDays ==
    IF ActivityTimes = {} THEN 9999
    ELSE LET last == CHOOSE a \in ActivityTimes : \A b \in ActivityTimes : b <= a
         IN  (now - last) \div 86400

NoteAfterAppointment ==
    /\ cls.latest_note # NoNote
    /\ cls.lead.appointment_date.type = "datetime"
    /\ cls.latest_note.time.type \in {"datetime", "str"}
    /\ cls.latest_note.time.v > cls.lead.appointment_date.v

TerminalLead == lower(cls.lead.current_stage) \in TERMINAL_STAGES

NonTerminalLead ==
    \A terminal \in TERMINAL_STAGES : ~Contains(terminal, lower(cls.lead.current_stage))

Score(d) == ratio(strip(lower(cls.lead.name)), strip(lower(d.name)))

NoBackReference ==
    \A i \in 1..Len(cls.deliveries) : cls.deliveries[i].locating_id # cls.lead.id

NoMatchingDelivery ==
    /\ NoBackReference
    /\ \A i \in 1..Len(cls.deliveries) : ~AtLeast(Score(cls.deliveries[i]), 60)

\* C24: a lead in stage "Appt Not Acknowledged" with no stage history, no note
\* and no matching delivery is classified at_risk, with the reason
\* "Appointment has never been acknowledged".
C24_AsStated ==
    ( /\ Classification
      /\ cls.lead.current_stage = APPT_NOT_ACKNOWLEDGED
      /\ cls.stage_history = << >>
      /\ cls.latest_note = NoNote
      /\ NoMatchingDelivery )
    => /\ cls.out.status = "at_risk"
       /\ cls.out.reason = "Appointment has never been acknowledged"

C26_TerminalAlwaysHealthy ==
    (Classification /\ TerminalLead)
    => /\ cls.out.status = "healthy"
       /\ cls.out.reason = "Completed - {current_stage}"
       /\ cls.out.arg = cls.lead.current_stage

C26_Witness ==
    /\ Classification /\ TerminalLead
    /\ InactiveDays >= 14
    /\ ~NoBackReference
    /\ NoteAfterAppointment

Matching == cls.pc = "done" /\ cls.kind = "match"

ZipEqual(d) == strip(cls.lead.zip_code) = strip(d.zip_code)

AddressContained(d) ==
    \/ Contains(strip(lower(cls.lead.street_address)), lower(d.address))
    \/ Contains(lower(d.address), strip(lower(cls.lead.street_address)))

Named(d) == d.name # << >> /\ cls.lead.name # << >>

\* C27, as stated: without a back-reference a delivery is accepted on name
\* similarity alone if and only if the similarity is at least 90; from 60 to
\* 89 it is accepted only if the zip codes are equal and one address contains
\* the other; below 60 it is never accepted.
C27_AsStated ==
    (Matching /\ NoBackReference /\ cls.out.found)
    => \/ AtLeast(Score(cls.out.value), 90)
       \/ /\ AtLeast(Score(cls.out.value), 60)
          /\ ZipEqual(cls.out.value) /\ AddressContained(cls.out.value)

LacksAddressOrZip == cls.lead.street_address = << >> \/ cls.lead.zip_code = << >>

Acceptable(d) ==
    /\ Named(d)
    /\ \/ AtLeast(Score(d), 90)
       \/ /\ AtLeast(Score(d), 60)
          /\ LacksAddressOrZip \/ (ZipEqual(d) /\ AddressContained(d))

\* C27: without a back-reference a delivery is accepted on name similarity
\* alone if the similarity is at least 90, or if it is at least 60 and the lead
\* has no address or no zip code; from 60 to below 90, for a lead with both,
\* it is accepted only if the zip codes are equal and one address contains the
\* other; below 60 it is never accepted.  A delivery is returned exactly when
\* some delivery is acceptable in this sense.
C27_FuzzyAcceptance ==
    (Matching /\ NoBackReference)
    => /\ cls.out.found => Acceptable(cls.out.value)
       /\ (\E i \in 1..Len(cls.deliveries) : Acceptable(cls.deliveries[i])) => cls.out.found

C27_Witness ==
    /\ Matching /\ NoBackReference /\ cls.out.found
    /\ ~AtLeast(Score(cls.out.value), 90)
    /\ cls.lead.zip_code = << >>
    /\ ~AddressContained(cls.out.value)

\* C28: a non-terminal lead with no matching delivery and no note after the
\* appointment, whose stage history holds a transition to "Green - Approved By
\* Locator" less than 14 days old, is classified needs_attention, whatever the
\* from_stage of that transition.
C28_AsStated ==
    ( /\ Classification
      /\ NonTerminalLead /\ NoMatchingDelivery /\ ~NoteAfterAppointment
      /\ \E i \in 1..Len(cls.stage_history) :
            /\ cls.stage_history[i].to_stage = GREEN_APPROVED
            /\ cls.stage_history[i].changed_at.type = "datetime"
            /\ now - cls.stage_history[i].changed_at.v < 14 * 86400 )
    => cls.out.status = "needs_attention"

LegacyClassification == cls.pc = "done" /\ cls.kind = "legacy"

PlainStage ==
    /\ lower(cls.stage) \notin LEGACY_TERMINAL_STAGES
    /\ cls.stage \notin {GREEN_APPROVED, APPT_NOT_ACKNOWLEDGED}

C30_AsStated ==
    (LegacyClassification /\ cls.stage \in {<< >>, APPT_NOT_ACKNOWLEDGED})
    => /\ cls.out = "stale" <=> cls.days_since >= 14
       /\ cls.days_since \in 5..13 => cls.out = "at_risk"

----------------------------------------------------------------------------
(* Claims about the dashboard *)

FailedRefresh ==
    /\ dash.pc = "idle"
    /\ lq.pc = "returned" /\ lq.outcome \in {"no_response", "invalid_json", "malformed"}

\* C32: when leads are loaded and the fetch of a refresh fails, the leads
\* loaded before are kept and a partial-data warning is set; an empty list
\* replaces the leads only when none were loaded before the failed fetch, on
\* every path to fetch_and_cache_leads (Refresh button, Retry button).
C32_AsStated ==
    FailedRefresh =>
        /\ dash.shown # << >> => dash.leads = dash.shown /\ dash.zoho_partial_error # None
        /\ (dash.has_leads /\ dash.leads = << >>) => dash.shown = << >>

\* the formatting has built the row of a lead in full context, the lead's id
\* being absent from the stage-history map
MissingHistory ==
    /\ cls.kind = "format" /\ cls.pc = "done"
    /\ cls.stage_histories.given /\ cls.deliveries.given
    /\ cls.lead.id # None
    /\ cls.lead.id \notin DOMAIN cls.stage_histories.v

\* the verdicts of get_lead_status_v2 that are reached from the stage history
HistoryVerdicts ==
    {"No activity for {days_since_activity} days",
     "Stage progressed but no notes added since appointment",
     "Appointment has never been acknowledged"}

\* C33: in full-context formatting, a lead whose id is missing from the
\* stage-history map is treated as unknown: its status is not derived from an
\* empty history, so no verdict that rests on the stage history is given
C33_AsStated ==
    MissingHistory => cls.out.classification_reason \notin HistoryVerdicts

----------------------------------------------------------------------------
(* Claims about the request executor, continued *)

\* the call was given a pre-fetched token and one of its requests was answered 401
Prefetched401 == InMakeRequest /\ mr.pre # NoToken /\ StatusAt(trace, 401) # {}

\* C34: an execute call given a pre-fetched token that receives HTTP 401 ends
\* at once with failure: the 401 is the last event of the call, which returns
\* no response; the call sends no refresh exchange, does not clear the stored
\* token and does not re-issue the request, and leaves the session as it was
C34_Prefetched401Fails ==
    Prefetched401 =>
        /\ mr.pc = "done" /\ mr.result = "None"
        /\ StatusAt(trace, 401) = {Len(trace)}
        /\ Count(trace, RefreshEvs \cup {"clear"}) = 0
        /\ Count(trace, {"req"}) = Count(trace, {"sleep"}) + 1
        /\ Session = snap

C34_Witness ==
    /\ Prefetched401 /\ mr.pc = "done"
    /\ Count(trace, {"sleep"}) = 1

\* C36: whenever a _make_request call made without a pre-fetched token ends
\* without a response, an error message and an error kind are recorded when it
\* returns, whatever made it fail, a refresh exchange answered 200 without an
\* access_token included
C36_AsStated ==
    (MakeRequestDone /\ mr.pre = NoToken /\ mr.result = "None") =>
        zoho_error # None /\ zoho_error_type # None

\* the retry budgets of the innermost call, read against what the chain of
\* calls did: the 429 retry count is the number of sleeps so far, and the 401
\* retry is enabled exactly as long as no 401 was retried
RetryBudgets ==
    /\ mr.rl = Count(trace, {"sleep"})
    /\ mr.r401 <=> Count(trace, {"clear"}) = 0
    /\ Count(trace, {"clear"}) <= 1

\* C37: one _make_request call sends at most 4 requests to the CRM API and
\* sleeps at most 2 times whatever the upstream answers: the retry after a 401
\* keeps the 429 retry count and the retry after a 429 keeps the 401 retry
\* disabled once it was used, and every call that sent a request returns
C37_BoundedRetries ==
    /\ [](InMakeRequest =>
            /\ Count(trace, {"req"}) <= 2 + MAX_RATE_LIMIT_RETRIES
            /\ Count(trace, {"sleep"}) <= MAX_RATE_LIMIT_RETRIES
            /\ RetryBudgets)
    /\ (mr.pc = "wait") ~> (mr.pc = "done")

\* a call that was answered 429, 429, 401 and 429: four requests, two sleeps
C37_Witness ==
    /\ MakeRequestDone
    /\ Count(trace, {"req"}) = 4
    /\ Count(trace, {"sleep"}) = 2
    /\ Count(trace, {"clear"}) = 1
    /\ Cardinality(StatusAt(trace, 429)) = 3

\* C38: in every state the client's operations reach once the session state
\* is initialised, the recorded error message is None if and only if the
\* recorded error kind is None
C38_ErrorAndKindTogether ==
    (zoho_error = None) <=> (zoho_error_type = None)

\* a call that began with the error of a failed refresh recorded, cleared it
\* with a successful refresh exchange and then recorded the error of a 500
\* answer
C38_Witness ==
    /\ MakeRequestDone /\ mr.pre = NoToken /\ mr.result = "None"
    /\ snap.error = MSG_SESSION /\ snap.etype = ERROR_TYPE_AUTH
    /\ Count(trace, {"refresh_ok"}) = 1
    /\ zoho_error = MSG_STATUS /\ zoho_error_type = ERROR_TYPE_UNKNOWN

----------------------------------------------------------------------------
(* Claims about the notes cache, continued *)

\* the second of two get_notes_for_leads calls has returned in the browser
\* session of the first: the token the first call pre-fetched is still the
\* stored one (a new session starts without a token, and every exchange
\* yields a new one)
SecondNotesCallSameSession ==
    /\ kind = "notes" /\ bpc = "returned" /\ ncall = 2 /\ prev.ran
    /\ prev.token # NoToken /\ zoho_access_token = prev.token

\* C35: two consecutive get_notes_for_leads calls for the same lead in one
\* session, with no cache clear in between, return the same content and
\* timestamp for that lead; a note the first call fetched from upstream is the
\* note the second call returns
C35_AsStated ==
    SecondNotesCallSameSession =>
        \A id \in prev.fetched \cap DOMAIN prev.result :
            id \in DOMAIN result /\ result[id] = prev.result[id]

====
